---- MODULE Spec2Model ----
(***************************************************************************)
(* Model of the video playback engine of the analyser (portable.3.8):      *)
(* VideoEngine (video_engine.py) with its frame cache and seek logic, and  *)
(* VideoThread (video_thread.py), the playback loop that drives it.        *)
(*                                                                         *)
(* A decoded frame is represented by the position it has in the stream it  *)
(* was decoded from, so "the frame of index k" is the value k, while the   *)
(* index the engine reports for a frame is computed as the code computes   *)
(* it and may differ.                                                      *)
(***************************************************************************)
EXTENDS Integers, Sequences, FiniteSets, TLC

\* ---------------------------------------------------------------- bounds
\* Frame count that the streams of the engine specification report.
MaxFrames == 5
\* Frames the truncated stream delivers before it ends (fewer than it reports).
TruncFrames == 3
\* Frame count of the streams a cold seek is tried on (more than the small step).
ColdFrames == 12
\* Largest cache capacity the settings can hold in the model.
MaxCache == 2
\* Largest seek_effort (lookback) the settings can hold in the model.
MaxLookback == 2
\* Frame count of the stream the playback thread plays.
ThreadFrames == 2
\* Frames the loop can have emitted that the UI has not handled yet.
MaxPending == 1
\* The frames the loop plays before it has to fall behind and reset its count.
MaxPlayed == 2
\* The most frames a transcoded input holds: two progress reports.
GenFrames == 20
\* The largest width and height of a transcoded input, and target height.
GenDim == 4
\* The most files the proxies directory holds.
MaxFiles == 2
\* The largest frame count of a video whose segments are edited.
EditFrames == 3
\* The most states the undo history holds in the model.
MaxHistory == 2

\* ------------------------------------------------------ program constants
\* seek(): `if 0 < diff <= 10`
SMALL_STEP_THRESHOLD == 10
\* ProxyGeneratorThread.run: progress is emitted when count % 10 == 0
PROGRESS_EVERY == 10
\* VideoEngine.load, find_existing_proxy: a proxy counts if getsize > 1000
MIN_PROXY_SIZE == 1000
\* SettingsManager.delete_single_proxy: `for _ in range(5)`
DELETE_ATTEMPTS == 5
\* ProSportsAnalyzer.save_state: `if len(self.history) > 1000`
HISTORY_LIMIT == 1000

NoFrame == -1

\* The values the settings take in the model: the smallest capacity and the
\* largest; no lookback and the largest.
CacheSizes == {1, MaxCache}
SeekEfforts == {0, MaxLookback}

\* A media file as the decoder sees it: `count` is CAP_PROP_FRAME_COUNT (container
\* metadata), `frames` the number of frames cap.read() can actually deliver,
\* `fast` whether the fourcc is MJPG or the path ends in .avi, `ok` whether a
\* backend opens it.
Sources ==
    { [count |-> MaxFrames, frames |-> MaxFrames, fast |-> f, ok |-> TRUE] : f \in BOOLEAN }
    \cup { [count |-> MaxFrames, frames |-> TruncFrames, fast |-> FALSE, ok |-> TRUE] }
    \cup { [count |-> 0, frames |-> 0, fast |-> FALSE, ok |-> FALSE] }

VARIABLES
    cap,                  \* VideoEngine.cap: the decoder handle
    total_frames,         \* VideoEngine.total_frames
    current_frame_index,  \* VideoEngine.current_frame_index
    CACHE_SIZE,           \* VideoEngine.CACHE_SIZE
    cache,                \* VideoEngine.cache: deque of <<index, frame>>
    cache_maxlen,         \* VideoEngine.cache.maxlen
    cache_index_map,      \* VideoEngine.cache_index_map: index -> frame
    smart_seek_lookback,  \* VideoEngine.smart_seek_lookback
    is_fast_seek,         \* VideoEngine.is_fast_seek
    settings,             \* SettingsManager.data["general"]: cache_size, seek_effort
    last,                 \* what the last engine call did and returned
    inserted,             \* the indices put into the cache, by latest insertion
    nInserted,            \* how many insertions the cache has taken since it was empty
    run_flag,             \* VideoThread._run_flag
    current_frame_num,    \* VideoThread.current_frame_num
    mutex,                \* VideoThread.mutex: "free", or the context that locked it
    loopPc,               \* where the thread executing VideoThread.run stands
    loopFr,               \* run(): the local fr (fr_r is fr # NoFrame)
    killPending,          \* terminate() was called and has not taken effect yet
    ui,                   \* the UI context: the handler it executes and where it stands
    playing,              \* ProSportsAnalyzer.playing
    pending,              \* frames the loop emitted (each with the index read), queued for update_image
    stopReturned,         \* stop() has returned and start() was not called since
    access,               \* the last access to the engine: who, and under which lock state
    loopIdx,              \* run(): the local idx
    frames_played_in_loop,\* run(): the local frames_played_in_loop
    runLog,               \* what the current run of the loop has done: see NoRun
    shown,                \* what update_image recorded last: see NoShown
    removal,              \* a call of SettingsManager.delete_single_proxy: see NoRemoval
    editor,               \* the window's segments, undo history and selection: see NoEditor
    win,                  \* the window's proxy state: see NoVideo
    gen,                  \* a ProxyGeneratorThread: see NoGen
    proxies_dir,          \* the files of settings.proxies_dir
    source,               \* VideoEngine's original_path, is_proxy_active, proxy_path
    proxy_settings        \* SettingsManager.data["general"]: proxy_quality, proxy_codec

engineVars == <<cap, total_frames, current_frame_index, CACHE_SIZE, cache,
                cache_maxlen, cache_index_map, smart_seek_lookback, is_fast_seek>>

\* The record of the cache's insertions that the cache specification keeps.
putVars == <<inserted, nInserted>>

\* The playback thread, the UI context and what passes between them.
threadVars == <<run_flag, current_frame_num, mutex, loopPc, loopFr, killPending,
                ui, playing, pending, stopReturned, access,
                loopIdx, frames_played_in_loop, runLog, shown>>

\* The loop's pacing and bookkeeping, and what update_image recorded.
playVars == <<loopIdx, frames_played_in_loop, runLog, shown>>

vars == <<cap, total_frames, current_frame_index, CACHE_SIZE, cache,
          cache_maxlen, cache_index_map, smart_seek_lookback, is_fast_seek,
          settings, last, inserted, nInserted,
          run_flag, current_frame_num, mutex, loopPc, loopFr, killPending,
          ui, playing, pending, stopReturned, access, win,
          gen, proxies_dir, source, proxy_settings,
          loopIdx, frames_played_in_loop, runLog, shown,
          removal, editor>>

\* The deletion of a proxy file, and the segment editor.
editVars == <<removal, editor>>

\* The transcoder, the proxies directory and the engine's choice of file.
proxyVars == <<gen, proxies_dir, source, proxy_settings>>

\* ------------------------------------------------------------- the decoder
\* self.cap = None
NoCap == [open |-> FALSE, frames |-> 0, count |-> 0, fast |-> FALSE, pos |-> 0]

\* cv2.VideoCapture(path, api)
OpenCap(src) ==
    [open |-> src.ok, frames |-> src.frames, count |-> src.count, fast |-> src.fast, pos |-> 0]

\* The engine's fields as one value, so that read and seek, which call each
\* other, can be written as functions from engine state to engine state.
\* nread counts the frames cap.read() delivered, nset the calls of cap.set.
EngineState ==
    [cap |-> cap, total_frames |-> total_frames,
     current_frame_index |-> current_frame_index,
     CACHE_SIZE |-> CACHE_SIZE, cache |-> cache, cache_maxlen |-> cache_maxlen,
     cache_index_map |-> cache_index_map,
     smart_seek_lookback |-> smart_seek_lookback, is_fast_seek |-> is_fast_seek,
     nread |-> 0, nset |-> 0]

\* ret, frame = self.cap.read(): the frame at the decoder's position, which
\* then advances; no frame at or past the end of the stream.
CapRead(e) ==
    IF e.cap.pos < e.cap.frames
    THEN [e |-> [e EXCEPT !.cap.pos = @ + 1, !.nread = @ + 1],
          ret |-> TRUE, frame |-> e.cap.pos]
    ELSE [e |-> e, ret |-> FALSE, frame |-> NoFrame]

\* self.cap.set(cv2.CAP_PROP_POS_FRAMES, k), exact
CapSet(e, k) == [e EXCEPT !.cap.pos = k, !.nset = @ + 1]

\* ---------------------------------------------------------- the frame cache
CacheIndices(c) == { c[i][1] : i \in 1..Len(c) }

MapRemove(m, k) == [i \in DOMAIN m \ {k} |-> m[i]]

MapPut(m, k, v) == [i \in DOMAIN m \cup {k} |-> IF i = k THEN v ELSE m[i]]

EmptyMap == [i \in {} |-> NoFrame]

\* deque.append on a deque with maxlen: a full deque drops its left end
DequeAppend(d, maxlen, x) ==
    IF maxlen = 0 THEN d
    ELSE IF Len(d) >= maxlen THEN Append(Tail(d), x)
    ELSE Append(d, x)

\* _update_cache as it would be with the eviction taken from the wrong end of
\* the deque (pop instead of popleft).
UpdateCache_EvictNewest(e, idx, frame) ==
    IF idx \in DOMAIN e.cache_index_map THEN e
    ELSE
        LET e1 == IF Len(e.cache) = e.cache_maxlen
                  THEN LET newest_idx == e.cache[Len(e.cache)][1]
                       IN [e EXCEPT !.cache = SubSeq(@, 1, Len(@) - 1),
                                    !.cache_index_map =
                                        IF newest_idx \in DOMAIN @
                                        THEN MapRemove(@, newest_idx) ELSE @]
                  ELSE e
        IN [e1 EXCEPT !.cache = DequeAppend(@, e1.cache_maxlen, <<idx, frame>>),
                      !.cache_index_map = MapPut(@, idx, frame)]

\* _update_cache as it would be if a put of a cached index replaced the entry
\* and moved it to the newest end.
UpdateCache_Refresh(e, idx, frame) ==
    IF idx \in DOMAIN e.cache_index_map
    THEN [e EXCEPT !.cache = Append(SelectSeq(@, LAMBDA x : x[1] # idx), <<idx, frame>>),
                   !.cache_index_map = MapPut(@, idx, frame)]
    ELSE
        LET e1 == IF Len(e.cache) = e.cache_maxlen
                  THEN LET oldest_idx == Head(e.cache)[1]
                       IN [e EXCEPT !.cache = Tail(@),
                                    !.cache_index_map =
                                        IF oldest_idx \in DOMAIN @
                                        THEN MapRemove(@, oldest_idx) ELSE @]
                  ELSE e
        IN [e1 EXCEPT !.cache = DequeAppend(@, e1.cache_maxlen, <<idx, frame>>),
                      !.cache_index_map = MapPut(@, idx, frame)]

\* _update_cache as it would be if an eviction left the evicted index in the
\* index map.
UpdateCache_KeepsEvictedKey(e, idx, frame) ==
    IF idx \in DOMAIN e.cache_index_map THEN e
    ELSE
        LET e1 == IF Len(e.cache) = e.cache_maxlen
                  THEN [e EXCEPT !.cache = Tail(@)]
                  ELSE e
        IN [e1 EXCEPT !.cache = DequeAppend(@, e1.cache_maxlen, <<idx, frame>>),
                      !.cache_index_map = MapPut(@, idx, frame)]

\* VideoEngine._update_cache
UpdateCache(e, idx, frame) ==
    IF idx \in DOMAIN e.cache_index_map THEN e
    ELSE
        LET e1 == IF Len(e.cache) = e.cache_maxlen
                  THEN LET oldest_idx == Head(e.cache)[1]
                       IN [e EXCEPT !.cache = Tail(@),
                                    !.cache_index_map =
                                        IF oldest_idx \in DOMAIN @
                                        THEN MapRemove(@, oldest_idx) ELSE @]
                  ELSE e
        IN [e1 EXCEPT !.cache = DequeAppend(@, e1.cache_maxlen, <<idx, frame>>),
                      !.cache_index_map = MapPut(@, idx, frame)]

\* ------------------------------------------------------------------- read
\* read as it would be if the index were counted from current_frame_index
\* instead of asked from the decoder.
ReadOp_CountsFromCurrent(e) ==
    IF ~e.cap.open
    THEN [e |-> e, ret |-> FALSE, frame |-> NoFrame, idx |-> e.current_frame_index]
    ELSE
        LET r == CapRead(e) IN
        IF r.ret
        THEN LET pos == e.current_frame_index + 1
                 e1 == [r.e EXCEPT !.current_frame_index = pos]
             IN [e |-> UpdateCache(e1, pos, r.frame), ret |-> TRUE,
                 frame |-> r.frame, idx |-> pos]
        ELSE [e |-> r.e, ret |-> FALSE, frame |-> NoFrame,
              idx |-> e.current_frame_index]

\* VideoEngine.read
ReadOp(e) ==
    IF ~e.cap.open
    THEN [e |-> e, ret |-> FALSE, frame |-> NoFrame, idx |-> e.current_frame_index]
    ELSE
        LET r == CapRead(e) IN
        IF r.ret
        THEN LET p0 == r.e.cap.pos - 1
                 pos == IF p0 < 0 THEN e.current_frame_index + 1 ELSE p0
                 e1 == [r.e EXCEPT !.current_frame_index = pos]
             IN [e |-> UpdateCache(e1, pos, r.frame), ret |-> TRUE,
                 frame |-> r.frame, idx |-> pos]
        ELSE [e |-> r.e, ret |-> FALSE, frame |-> NoFrame,
              idx |-> e.current_frame_index]

\* ------------------------------------------------------------------- seek
Max(a, b) == IF a > b THEN a ELSE b

Min(a, b) == IF a < b THEN a ELSE b

\* target_frame = max(0, min(target_frame, self.total_frames - 1))
ClampTarget(e, t) == Max(0, Min(t, e.total_frames - 1))

\* seek(): the loop of the small-step branch, `while self.current_frame_index <
\* target_frame`. returned says that the loop ended in its `return True, frame,
\* target_frame`.
RECURSIVE SmallStepLoop(_, _)
SmallStepLoop(e, target) ==
    IF e.current_frame_index < target
    THEN LET r == ReadOp(e) IN
         IF ~r.ret THEN [e |-> r.e, returned |-> FALSE, frame |-> NoFrame]
         ELSE IF r.e.current_frame_index = target
         THEN [e |-> r.e, returned |-> TRUE, frame |-> r.frame]
         ELSE SmallStepLoop(r.e, target)
    ELSE [e |-> e, returned |-> FALSE, frame |-> NoFrame]

\* seek(): the loop of the lookback branch, `while current_decode_pos <=
\* target_frame`; found is found_frame, NoFrame standing for None.
RECURSIVE LookbackLoop(_, _, _, _)
LookbackLoop(e, current_decode_pos, target, found) ==
    IF current_decode_pos <= target
    THEN LET r == CapRead(e) IN
         IF ~r.ret THEN [e |-> r.e, found |-> found]
         ELSE LookbackLoop(UpdateCache(r.e, current_decode_pos, r.frame),
                           current_decode_pos + 1, target,
                           IF current_decode_pos = target THEN r.frame ELSE found)
    ELSE [e |-> e, found |-> found]

\* seek(): the last resort, `self.cap.set(POS_FRAMES, target_frame)` and one read
SeekFallback(e, target) ==
    LET r == ReadOp(CapSet(e, target)) IN
    IF r.ret
    THEN [e |-> r.e, ret |-> TRUE, frame |-> r.frame, idx |-> target, path |-> "fallback"]
    ELSE [e |-> r.e, ret |-> FALSE, frame |-> NoFrame,
          idx |-> r.e.current_frame_index, path |-> "failed"]

\* The repositioning as it would be with the lookback started one frame early.
SeekReposition_EarlyFill(e, target) ==
    IF e.smart_seek_lookback = 0
    THEN LET r == ReadOp(CapSet(e, target)) IN
         IF r.ret
         THEN [e |-> r.e, ret |-> TRUE, frame |-> r.frame,
               idx |-> r.e.current_frame_index, path |-> "direct"]
         ELSE SeekFallback(r.e, target)
    ELSE LET start_fill == Max(0, target - e.smart_seek_lookback - 1)
             l == LookbackLoop(CapSet(e, start_fill), start_fill, target, NoFrame)
         IN IF l.found # NoFrame
            THEN [e |-> [l.e EXCEPT !.current_frame_index = target], ret |-> TRUE,
                  frame |-> l.found, idx |-> target, path |-> "lookback"]
            ELSE SeekFallback(l.e, target)

\* seek(): from `t0 = time.time()` on: the direct positional seek when the
\* lookback is 0, else the seek to target - lookback and the decode forward.
SeekReposition(e, target) ==
    IF e.smart_seek_lookback = 0
    THEN LET r == ReadOp(CapSet(e, target)) IN
         IF r.ret
         THEN [e |-> r.e, ret |-> TRUE, frame |-> r.frame,
               idx |-> r.e.current_frame_index, path |-> "direct"]
         ELSE SeekFallback(r.e, target)
    ELSE LET start_fill == Max(0, target - e.smart_seek_lookback)
             l == LookbackLoop(CapSet(e, start_fill), start_fill, target, NoFrame)
         IN IF l.found # NoFrame
            THEN [e |-> [l.e EXCEPT !.current_frame_index = target], ret |-> TRUE,
                  frame |-> l.found, idx |-> target, path |-> "lookback"]
            ELSE SeekFallback(l.e, target)

\* seek(): the branch `if 0 < diff <= 10`
SeekSmallStep(e, target) ==
    LET s == SmallStepLoop(e, target) IN
    IF s.returned
    THEN [e |-> s.e, ret |-> TRUE, frame |-> s.frame, idx |-> target, path |-> "small"]
    ELSE IF s.e.current_frame_index \in DOMAIN s.e.cache_index_map
    THEN [e |-> s.e, ret |-> TRUE,
          frame |-> s.e.cache_index_map[s.e.current_frame_index],
          idx |-> s.e.current_frame_index, path |-> "small_cached"]
    ELSE SeekReposition(s.e, target)

\* seek as it would be without the cache lookup: every seek repositions or
\* steps the decoder.
SeekOp_NoCacheBranch(e, target_frame) ==
    IF ~e.cap.open
    THEN [e |-> e, ret |-> FALSE, frame |-> NoFrame, idx |-> -1, path |-> "closed"]
    ELSE
        LET target == ClampTarget(e, target_frame)
            diff == target - e.current_frame_index
        IN IF 0 < diff /\ diff <= SMALL_STEP_THRESHOLD
           THEN SeekSmallStep(e, target)
           ELSE SeekReposition(e, target)

\* seek as it would be if a cache hit made the entry the newest (LRU).
SeekOp_TouchOnHit(e, target_frame) ==
    IF ~e.cap.open
    THEN [e |-> e, ret |-> FALSE, frame |-> NoFrame, idx |-> -1, path |-> "closed"]
    ELSE
        LET target == ClampTarget(e, target_frame)
            diff == target - e.current_frame_index
        IN IF target \in DOMAIN e.cache_index_map
           THEN [e |-> [e EXCEPT !.current_frame_index = target,
                                 !.cache = Append(SelectSeq(@, LAMBDA x : x[1] # target),
                                                  <<target, e.cache_index_map[target]>>)],
                 ret |-> TRUE,
                 frame |-> e.cache_index_map[target], idx |-> target, path |-> "cache"]
           ELSE IF 0 < diff /\ diff <= SMALL_STEP_THRESHOLD
           THEN SeekSmallStep(e, target)
           ELSE SeekReposition(e, target)

\* VideoEngine.seek
SeekOp(e, target_frame) ==
    IF ~e.cap.open
    THEN [e |-> e, ret |-> FALSE, frame |-> NoFrame, idx |-> -1, path |-> "closed"]
    ELSE
        LET target == ClampTarget(e, target_frame)
            diff == target - e.current_frame_index
        IN IF target \in DOMAIN e.cache_index_map
           THEN [e |-> [e EXCEPT !.current_frame_index = target], ret |-> TRUE,
                 frame |-> e.cache_index_map[target], idx |-> target, path |-> "cache"]
           ELSE IF 0 < diff /\ diff <= SMALL_STEP_THRESHOLD
           THEN SeekSmallStep(e, target)
           ELSE SeekReposition(e, target)

\* ------------------------------------------------------- live settings
\* The trim as it would be if it kept the oldest entries (old_data[:new_cache]).
KeepNewest_Oldest(d, n) ==
    IF Len(d) > n THEN SubSeq(d, 1, n) ELSE d

\* old_data[-new_cache:] and deque(old_data, maxlen=new_cache): the newest
\* new_cache entries of the old deque
KeepNewest(d, n) ==
    IF Len(d) > n THEN SubSeq(d, Len(d) - n + 1, Len(d)) ELSE d

\* update_settings_live as it would be if a new capacity were stored without
\* rebuilding the deque.
UpdateSettingsOp_NoTrim(e, st) ==
    LET e1 == IF st.cache_size # e.CACHE_SIZE
              THEN [e EXCEPT !.CACHE_SIZE = st.cache_size]
              ELSE e
    IN IF ~e1.is_fast_seek /\ e1.smart_seek_lookback # st.seek_effort
       THEN [e1 EXCEPT !.smart_seek_lookback = st.seek_effort]
       ELSE e1

\* VideoEngine.update_settings_live
UpdateSettingsOp(e, st) ==
    LET new_cache == st.cache_size
        e1 == IF new_cache # e.CACHE_SIZE
              THEN LET c == KeepNewest(e.cache, new_cache)
                   IN [e EXCEPT !.CACHE_SIZE = new_cache,
                                !.cache = c,
                                !.cache_maxlen = new_cache,
                                !.cache_index_map =
                                    [k \in DOMAIN @ \cap CacheIndices(c) |-> @[k]]]
              ELSE e
    IN IF ~e1.is_fast_seek /\ e1.smart_seek_lookback # st.seek_effort
       THEN [e1 EXCEPT !.smart_seek_lookback = st.seek_effort]
       ELSE e1

\* ------------------------------------------------------------ load, release
\* load_internal as it would be if the lookback were taken from the settings
\* for every stream, fast seek or not.
LoadInternalOp_KeepsLookback(e, src, st) ==
    LET c == OpenCap(src) IN
    IF c.open
    THEN [e |-> [e EXCEPT !.cap = c,
                          !.total_frames = IF c.count <= 0 THEN 0 ELSE c.count,
                          !.is_fast_seek = c.fast,
                          !.smart_seek_lookback = st.seek_effort,
                          !.current_frame_index = -1,
                          !.cache = <<>>,
                          !.cache_index_map = EmptyMap],
          ret |-> TRUE]
    ELSE [e |-> [e EXCEPT !.cap = c], ret |-> FALSE]

\* VideoEngine.load_internal
LoadInternalOp(e, src, st) ==
    LET c == OpenCap(src) IN
    IF c.open
    THEN [e |-> [e EXCEPT !.cap = c,
                          !.total_frames = IF c.count <= 0 THEN 0 ELSE c.count,
                          !.is_fast_seek = c.fast,
                          !.smart_seek_lookback = IF c.fast THEN 0 ELSE st.seek_effort,
                          !.current_frame_index = -1,
                          !.cache = <<>>,
                          !.cache_index_map = EmptyMap],
          ret |-> TRUE]
    ELSE [e |-> [e EXCEPT !.cap = c], ret |-> FALSE]

\* full_stop as it would be if it kept the decoder handle.
FullStopOp_KeepsHandle(e) == e

\* VideoEngine.full_stop
FullStopOp(e) == [e EXCEPT !.cap = NoCap]

\* VideoEngine.release
ReleaseOp(e) == [FullStopOp(e) EXCEPT !.cache = <<>>, !.cache_index_map = EmptyMap]

\* ----------------------------------------------------------------- actions
\* The engine's fields take the values of the engine state e.
SetEngine(e) ==
    /\ cap' = e.cap
    /\ total_frames' = e.total_frames
    /\ current_frame_index' = e.current_frame_index
    /\ CACHE_SIZE' = e.CACHE_SIZE
    /\ cache' = e.cache
    /\ cache_maxlen' = e.cache_maxlen
    /\ cache_index_map' = e.cache_index_map
    /\ smart_seek_lookback' = e.smart_seek_lookback
    /\ is_fast_seek' = e.is_fast_seek

\* What a call returned: ok, frame and idx are the returned triple, arg the
\* argument of a seek (for update_settings_live, the number of entries the
\* cache held when it was called; for full_stop and release, 1 when the
\* decoder handle was open and 0 when it was not), nread the frames the
\* decoder delivered during the call,
\* nset its positional sets, path the branch of seek that returned. For
\* find_existing_proxy ok is the value returned; for a load on the proxies
\* directory arg is 1 when try_proxy was true and 0 when not.
Outcome(op, arg, ok, frame, idx, e, path) ==
    [op |-> op, arg |-> arg, ok |-> ok, frame |-> frame, idx |-> idx,
     nread |-> e.nread, nset |-> e.nset, path |-> path]

\* The arguments a caller passes to seek: every frame, and one on each side
\* of the range.
SeekArgs == -1..MaxFrames

\* The UI context between two handlers.
UiIdle == [op |-> "none", pc |-> "idle", arg |-> -1]

\* The window before a video is opened: ProSportsAnalyzer.current_frame, whether
\* engine.original_path is set, engine.is_proxy_active, whether a proxy file of
\* the video exists on disk, whether a ProxyGeneratorThread runs, and the
\* settings dialog's need_restart and "proxy_quality differs from old_quality".
NoVideo ==
    [current_frame |-> 0, original_path |-> FALSE, is_proxy_active |-> FALSE,
     proxy_file |-> FALSE, proxy_thread |-> FALSE,
     need_restart |-> FALSE, quality_changed |-> FALSE]

\* A run of the loop that has done nothing yet: finished counts the
\* finished_signal emissions of the run, reads the engine.read calls of the
\* current iteration, prev is the index the run's latest successful read
\* returned, -1 if there is none; stopped says that stop() has cleared the
\* flag while the run was in its loop, later_reads and later_emits count the
\* engine.read calls and the frames emitted since.
NoRun ==
    [finished |-> 0, reads |-> 0, prev |-> -1,
     stopped |-> FALSE, later_reads |-> 0, later_emits |-> 0]

\* update_image has handled no frame yet. Of a handled frame: last_frame is
\* ProSportsAnalyzer.last_frame, current_frame what update_image read from
\* thread.current_frame_num, idx the index read() returned with the frame.
NoShown == [last_frame |-> NoFrame, current_frame |-> 0, idx |-> -1]

\* update_image(frame), the frame having been returned with index idx while
\* thread.current_frame_num is num.
UpdateImage(frame, idx, num) == [last_frame |-> frame, current_frame |-> num, idx |-> idx]

\* ProSportsAnalyzer.__init__: no video; segments is a list of [start, end],
\* history and redo_stack lists of segment lists (the markers are left out),
\* selected_segment_idx is the timeline's.
NoEditor ==
    [loaded |-> FALSE, total_frames |-> 100, fps |-> 30, segments |-> <<>>,
     history |-> <<>>, redo_stack |-> <<>>, current_frame |-> 0,
     selected_segment_idx |-> -1]

\* delete_single_proxy has not been called. Of a call: pc is "try" inside the
\* for loop and "done" after the return, path the argument, attempts the
\* os.remove calls made, result the value returned.
NoRemoval == [pc |-> "none", path |-> <<>>, attempts |-> 0, result |-> FALSE]

\* A path of the proxies directory, {name}_proxy_{quality}p{ext}, and the empty
\* string.
NoPath == [name |-> <<>>, quality |-> 0, ext |-> ""]

\* No ProxyGeneratorThread has been constructed. Of a constructed one: pc is
\* where run() stands, is_running is self._is_running, input the file at
\* input_path, output_path, codec and target_height the fields of these names,
\* fourcc the code the open writer was given,
\* scaled_width the value of int(width * ratio), new_width and new_height and
\* count the locals of run(), writer the path the open VideoWriter writes to,
\* disk the output paths that exist, progress and finished the values emitted
\* on the two signals, cancelled whether stop() was called while the frame
\* loop ran, requested the output path the constructor was given.
NoGen ==
    [pc |-> "none", is_running |-> TRUE,
     input |-> [ok |-> FALSE, total |-> 0, frames |-> 0, width |-> 0, height |-> 0],
     output_path |-> NoPath, requested |-> NoPath, codec |-> "", fourcc |-> "",
     target_height |-> 0,
     scaled_width |-> 0, new_width |-> 0, new_height |-> 0, count |-> 0,
     writer |-> NoPath, disk |-> {}, progress |-> <<>>, finished |-> <<>>,
     cancelled |-> FALSE]

\* The engine before a load: original_path (the video's name, <<>> for None),
\* is_proxy_active, proxy_path; opened is the proxy the decoder was last opened
\* on (NoPath if it was not a proxy), on_original whether it was last opened on
\* the original.
NoSource ==
    [original_path |-> <<>>, is_proxy_active |-> FALSE, proxy_path |-> NoPath,
     opened |-> NoPath, on_original |-> FALSE]

\* VideoEngine.__init__, VideoThread.__init__ and ProSportsAnalyzer.__init__
Init ==
    /\ settings \in [cache_size : CacheSizes, seek_effort : SeekEfforts]
    /\ cap = NoCap
    /\ total_frames = 0
    /\ current_frame_index = -1
    /\ CACHE_SIZE = settings.cache_size
    /\ cache = <<>>
    /\ cache_maxlen = settings.cache_size
    /\ cache_index_map = EmptyMap
    /\ smart_seek_lookback = 0
    /\ is_fast_seek = FALSE
    /\ last = Outcome("init", -1, TRUE, NoFrame, -1, [nread |-> 0, nset |-> 0], "")
    /\ inserted = <<>>
    /\ nInserted = 0
    /\ run_flag = TRUE
    /\ current_frame_num = 0
    /\ mutex = "free"
    /\ loopPc = "idle"
    /\ loopFr = NoFrame
    /\ killPending = FALSE
    /\ ui = UiIdle
    /\ playing = FALSE
    /\ pending = <<>>
    /\ stopReturned = FALSE
    /\ access = [who |-> "none", held |-> FALSE, concurrent |-> FALSE]
    /\ loopIdx = -1
    /\ frames_played_in_loop = 0
    /\ runLog = NoRun
    /\ shown = NoShown
    /\ removal = NoRemoval
    /\ editor = NoEditor
    /\ win = NoVideo
    /\ gen = NoGen
    /\ proxies_dir = {}
    /\ source = NoSource
    /\ proxy_settings = [proxy_quality |-> 540, proxy_codec |-> "MJPG"]

\* VideoEngine.load on a path with no proxy
Load(src) ==
    LET r == LoadInternalOp(FullStopOp(EngineState), src, settings) IN
    /\ SetEngine(r.e)
    /\ last' = Outcome("load", -1, r.ret, NoFrame, -1, r.e, "")
    /\ UNCHANGED <<settings, putVars, threadVars, win, proxyVars, editVars>>

\* VideoEngine.read
Read ==
    LET r == ReadOp(EngineState) IN
    /\ SetEngine(r.e)
    /\ last' = Outcome("read", -1, r.ret, r.frame, r.idx, r.e, "")
    /\ UNCHANGED <<settings, putVars, threadVars, win, proxyVars, editVars>>

\* VideoEngine.seek
Seek(t) ==
    LET r == SeekOp(EngineState, t) IN
    /\ SetEngine(r.e)
    /\ last' = Outcome("seek", t, r.ret, r.frame, r.idx, r.e, r.path)
    /\ UNCHANGED <<settings, putVars, threadVars, win, proxyVars, editVars>>

\* GeneralSettingsDialog.save_settings: the dialog stores the new values
SettingsSet(c, l) ==
    /\ settings' = [cache_size |-> c, seek_effort |-> l]
    /\ settings' # settings
    /\ UNCHANGED <<engineVars, last, putVars, threadVars, win, proxyVars, editVars>>

\* VideoEngine.update_settings_live
UpdateSettingsLive ==
    LET e == UpdateSettingsOp(EngineState, settings) IN
    /\ SetEngine(e)
    /\ last' = Outcome("update_settings", Len(cache), TRUE, NoFrame, -1, e, "")
    /\ UNCHANGED <<settings, putVars, threadVars, win, proxyVars, editVars>>

\* VideoEngine.release
Release ==
    LET e == ReleaseOp(EngineState) IN
    /\ SetEngine(e)
    /\ last' = Outcome("release", IF cap.open THEN 1 ELSE 0, TRUE, NoFrame, -1, e, "")
    /\ UNCHANGED <<settings, putVars, threadVars, win, proxyVars, editVars>>

\* VideoEngine.full_stop
FullStop ==
    LET e == FullStopOp(EngineState) IN
    /\ SetEngine(e)
    /\ last' = Outcome("full_stop", IF cap.open THEN 1 ELSE 0, TRUE, NoFrame, -1, e, "")
    /\ UNCHANGED <<settings, putVars, threadVars, win, proxyVars, editVars>>

Next ==
    \/ \E src \in Sources : Load(src)
    \/ Read
    \/ \E t \in SeekArgs : Seek(t)
    \/ \E c \in CacheSizes, l \in SeekEfforts : SettingsSet(c, l)
    \/ UpdateSettingsLive
    \/ Release
    \/ FullStop

Spec == Init /\ [][Next]_vars

\* ------------------------------------------------- the cache on its own
\* The indices a caller puts into the cache.
PutIndices == 0..(MaxFrames - 1)

\* s without the element x
SeqWithout(s, x) == SelectSeq(s, LAMBDA y : y # x)

\* One call of _update_cache(idx, frame) on the engine's cache. An insertion
\* (idx was absent) is recorded: idx becomes the latest of `inserted`. The
\* record stops at 3 * CACHE_SIZE insertions.
CachePut(idx, frame) ==
    LET e == UpdateCache(EngineState, idx, frame)
        absent == idx \notin DOMAIN cache_index_map
    IN /\ absent => nInserted < 3 * CACHE_SIZE
       /\ SetEngine(e)
       /\ last' = Outcome("put", idx, absent, frame, idx, e, "")
       /\ inserted' = IF absent THEN Append(SeqWithout(inserted, idx), idx) ELSE inserted
       /\ nInserted' = IF absent THEN nInserted + 1 ELSE nInserted
       /\ UNCHANGED <<settings, threadVars, win, proxyVars, editVars>>

\* self.cache.clear(); self.cache_index_map.clear() of load_internal and release
CacheClear ==
    LET e == [EngineState EXCEPT !.cache = <<>>, !.cache_index_map = EmptyMap] IN
    /\ cache # <<>>
    /\ SetEngine(e)
    /\ last' = Outcome("clear", -1, TRUE, NoFrame, -1, e, "")
    /\ inserted' = <<>>
    /\ nInserted' = 0
    /\ UNCHANGED <<settings, threadVars, win, proxyVars, editVars>>

\* The frames a caller passes with index idx: the frame of that index as first
\* decoded, and another decoded copy of it, a different object.
PutFrames(idx) == {idx, idx + MaxFrames}

CacheNext ==
    \/ \E idx \in PutIndices : \E frame \in PutFrames(idx) : CachePut(idx, frame)
    \/ CacheClear

\* A freshly constructed engine whose cache takes arbitrary puts.
SpecCache == Init /\ [][CacheNext]_vars

\* ---------------------------------------------------------- the cold seek
\* Streams long enough for a target past the small step: those whose frames
\* all decode, and those that end after TruncFrames frames.
ColdSources ==
    { [count |-> n, frames |-> n, fast |-> f, ok |-> TRUE] :
        n \in (SMALL_STEP_THRESHOLD + 1)..ColdFrames, f \in BOOLEAN }
    \cup { [count |-> n, frames |-> TruncFrames, fast |-> f, ok |-> TRUE] :
        n \in (SMALL_STEP_THRESHOLD + 1)..ColdFrames, f \in BOOLEAN }

\* The lookbacks tried on a cold seek: none, short, and longer than any target.
ColdEfforts == 0..(ColdFrames + 1)

\* A fresh engine, its settings edited or not, loads a stream and takes one seek.
ColdNext ==
    \/ last.op = "init" /\ \E l \in ColdEfforts : SettingsSet(settings.cache_size, l)
    \/ last.op = "init" /\ \E src \in ColdSources : Load(src)
    \/ last.op = "load" /\ \E t \in -1..ColdFrames : Seek(t)

SpecCold == Init /\ [][ColdNext]_vars

\* ------------------------------------------------- the playback thread
\* VideoThread.run is executed by the loop thread, every other method of
\* VideoThread and every handler of the window by the UI context. The loop
\* thread stands at: "idle" (not running), "begin" (entering run), "test" (the
\* while condition), "lock", "check" (the flag test under the lock), "break"
\* (between the unlock before the break and the unlock of the finally),
\* "read", "unlock", "emit".
ThreadSources ==
    { [count |-> ThreadFrames, frames |-> ThreadFrames, fast |-> FALSE, ok |-> TRUE] }

ThreadSeekArgs == {0, ThreadFrames - 1}

\* The loop thread is in a run: run() has been entered and not left.
LoopRunning == loopPc \notin {"idle", "begin"}

\* `while self._run_flag` and `if not self._run_flag`: the loop's tests of
\* the flag (a variant goes on whatever the flag)
Running_Ignored(flag) == TRUE

Running(flag) == flag

\* The loop thread is inside the section its lock guards.
LoopInside == mutex = "loop" /\ loopPc \in {"check", "read", "unlock"}

\* The UI context is inside a section its lock guards.
UiInside == mutex = "ui" /\ ui.pc \in {"body", "unlock"}

\* An access of context who to the engine's state: whether who holds the mutex,
\* and whether the other context is inside its guarded section meanwhile.
Access(who) ==
    [who |-> who, held |-> mutex = who,
     concurrent |-> IF who = "ui" THEN LoopInside ELSE UiInside]

\* QMutex.unlock by context who. Unlocking a mutex that another context
\* holds is undefined: it is released, or nothing happens.
Unlocked(who) == IF mutex = who \/ mutex = "free" THEN {"free"} ELSE {mutex, "free"}

\* QThread.start: a thread that is not running starts executing run
StartThread ==
    /\ loopPc' = IF loopPc = "idle" THEN "begin" ELSE loopPc
    /\ killPending' = IF loopPc = "idle" THEN FALSE ELSE killPending
    /\ stopReturned' = FALSE

\* ProSportsAnalyzer.toggle_play: reads engine.cap, then starts the thread or
\* begins stop()
UiTogglePlay ==
    /\ ui = UiIdle
    /\ access' = Access("ui")
    /\ IF ~cap.open
       THEN UNCHANGED <<playing, ui, loopPc, killPending, stopReturned>>
       ELSE /\ playing' = ~playing
            /\ IF ~playing
               THEN StartThread /\ UNCHANGED ui
               ELSE /\ ui' = [op |-> "pause", pc |-> "stop_set", arg |-> -1]
                    /\ UNCHANGED <<loopPc, killPending, stopReturned>>
    /\ UNCHANGED <<engineVars, settings, last, putVars, win, proxyVars, playVars, run_flag, current_frame_num,
                   mutex, loopFr, pending, editVars>>

\* The handlers that call stop() and then a locked method of VideoThread:
\* seek_video (stop, seek), VideoThread.load_video (stop, load, read_one_frame),
\* open_general_settings (stop, wait, update_settings_live) and
\* VideoThread.full_release (stop, release).
UiCall(op, arg) ==
    /\ ui = UiIdle
    /\ ui' = [op |-> op, pc |-> "stop_set", arg |-> arg]
    /\ playing' = IF op \in {"seek", "settings"} THEN FALSE ELSE playing
    /\ UNCHANGED <<engineVars, settings, last, putVars, win, proxyVars, playVars, run_flag, current_frame_num,
                   mutex, loopPc, loopFr, killPending, pending, stopReturned, access,
                   editVars>>

\* Where a handler goes on when stop() has returned.
AfterStop ==
    /\ stopReturned' = TRUE
    /\ ui' = [ui EXCEPT !.pc = CASE ui.op = "pause" -> "redraw"
                                 [] ui.op = "settings" -> "join"
                                 [] OTHER -> "lock"]

\* stop(): self._run_flag = False
UiStopSet ==
    /\ ui.pc = "stop_set"
    /\ run_flag' = FALSE
    /\ runLog' = IF LoopRunning THEN [runLog EXCEPT !.stopped = TRUE] ELSE runLog
    /\ ui' = [ui EXCEPT !.pc = "stop_wait"]
    /\ UNCHANGED <<engineVars, settings, last, putVars, win, proxyVars, loopIdx,
                   frames_played_in_loop, shown, current_frame_num, mutex,
                   loopPc, loopFr, killPending, playing, pending, stopReturned, access,
                   editVars>>

\* stop(): self.wait(500) returns, the thread having finished or the time
\* being up
UiStopWait ==
    /\ ui.pc = "stop_wait"
    /\ IF loopPc = "idle"
       THEN AfterStop
       ELSE ui' = [ui EXCEPT !.pc = "stop_term"] /\ UNCHANGED stopReturned
    /\ UNCHANGED <<engineVars, settings, last, putVars, win, proxyVars, playVars, run_flag, current_frame_num,
                   mutex, loopPc, loopFr, killPending, playing, pending, access, editVars>>

\* stop(): if self.isRunning(): self.terminate()
UiStopTerminate ==
    /\ ui.pc = "stop_term"
    /\ killPending' = (loopPc # "idle")
    /\ AfterStop
    /\ UNCHANGED <<engineVars, settings, last, putVars, win, proxyVars, playVars, run_flag, current_frame_num,
                   mutex, loopPc, loopFr, playing, pending, access, editVars>>

\* open_general_settings: self.thread.wait()
UiJoin ==
    /\ ui.pc = "join"
    /\ loopPc = "idle"
    /\ ui' = [ui EXCEPT !.pc = "lock"]
    /\ UNCHANGED <<engineVars, settings, last, putVars, win, proxyVars, playVars, run_flag, current_frame_num,
                   mutex, loopPc, loopFr, killPending, playing, pending, stopReturned,
                   access, editVars>>

\* self.mutex.lock() of the UI's methods
UiLock ==
    /\ ui.pc = "lock"
    /\ mutex = "free"
    /\ mutex' = "ui"
    /\ ui' = [ui EXCEPT !.pc = "body"]
    /\ UNCHANGED <<engineVars, settings, last, putVars, win, proxyVars, playVars, run_flag, current_frame_num,
                   loopPc, loopFr, killPending, playing, pending, stopReturned, access,
                   editVars>>

\* The engine call of the UI's method, between lock and unlock: seek,
\* load_video, read_one_frame, update_settings_live, full_release. A frame
\* that seek or read_one_frame emits is handled by update_image within the call.
UiBody ==
    /\ ui.pc = "body"
    /\ access' = Access("ui")
    /\ ui' = [ui EXCEPT !.pc = "unlock"]
    /\ CASE ui.op = "seek" ->
              LET r == SeekOp(EngineState, ui.arg) IN
              /\ SetEngine(r.e)
              /\ last' = Outcome("seek", ui.arg, r.ret, r.frame, r.idx, r.e, r.path)
              /\ current_frame_num' = IF r.ret THEN r.idx ELSE current_frame_num
              /\ shown' = IF r.ret THEN UpdateImage(r.frame, r.idx, r.idx) ELSE shown
         [] ui.op = "load" ->
              \E src \in ThreadSources :
                LET r == LoadInternalOp(FullStopOp(EngineState), src, settings) IN
                /\ SetEngine(r.e)
                /\ last' = Outcome("load", -1, r.ret, NoFrame, -1, r.e, "")
                /\ current_frame_num' = IF r.ret THEN 0 ELSE current_frame_num
                /\ UNCHANGED shown
         [] ui.op = "read_one" ->
              LET r == ReadOp(EngineState) IN
              /\ SetEngine(r.e)
              /\ last' = Outcome("read", -1, r.ret, r.frame, r.idx, r.e, "")
              /\ current_frame_num' = IF r.ret THEN r.idx ELSE current_frame_num
              /\ shown' = IF r.ret THEN UpdateImage(r.frame, r.idx, r.idx) ELSE shown
         [] ui.op = "settings" ->
              LET e == UpdateSettingsOp(EngineState, settings) IN
              /\ SetEngine(e)
              /\ last' = Outcome("update_settings", Len(cache), TRUE, NoFrame, -1, e, "")
              /\ UNCHANGED <<current_frame_num, shown>>
         [] ui.op = "release" ->
              LET e == ReleaseOp(EngineState) IN
              /\ SetEngine(e)
              /\ last' = Outcome("release", IF cap.open THEN 1 ELSE 0, TRUE, NoFrame, -1, e, "")
              /\ UNCHANGED <<current_frame_num, shown>>
    /\ UNCHANGED <<settings, putVars, win, proxyVars, loopIdx, frames_played_in_loop, runLog,
                   run_flag, mutex, loopPc, loopFr, killPending, playing, pending,
                   stopReturned, editVars>>

\* self.mutex.unlock() of the UI's methods; load_video goes on to read_one_frame
UiUnlock ==
    /\ ui.pc = "unlock"
    /\ mutex' \in Unlocked("ui")
    /\ ui' = IF ui.op = "load"
             THEN [op |-> "read_one", pc |-> "lock", arg |-> -1]
             ELSE UiIdle
    /\ UNCHANGED <<engineVars, settings, last, putVars, win, proxyVars, playVars, run_flag, current_frame_num,
                   loopPc, loopFr, killPending, playing, pending, stopReturned, access,
                   editVars>>

\* toggle_play: redraw_current_frame -> draw_frame -> draw_debug_overlay, which
\* reads engine.cache_index_map, engine.cache and engine.CACHE_SIZE
UiRedraw ==
    /\ ui.pc = "redraw"
    /\ access' = Access("ui")
    /\ ui' = UiIdle
    /\ UNCHANGED <<engineVars, settings, last, putVars, win, proxyVars, playVars, run_flag, current_frame_num,
                   mutex, loopPc, loopFr, killPending, playing, pending, stopReturned,
                   editVars>>

\* ProSportsAnalyzer.update_image for a frame the loop emitted: it keeps the
\* frame, reads thread.current_frame_num, and draw_frame -> draw_debug_overlay
\* reads the engine's cache
UiUpdateImage ==
    /\ ui = UiIdle
    /\ pending # <<>>
    /\ pending' = Tail(pending)
    /\ shown' = UpdateImage(Head(pending).frame, Head(pending).idx, current_frame_num)
    /\ access' = Access("ui")
    /\ UNCHANGED <<engineVars, settings, last, putVars, win, proxyVars, loopIdx,
                   frames_played_in_loop, runLog, run_flag, current_frame_num,
                   mutex, loopPc, loopFr, killPending, ui, playing, stopReturned, editVars>>

\* run(): self._run_flag = True; start_playback_time = time.time();
\* frames_played_in_loop = 0
LoopBegin ==
    /\ loopPc = "begin"
    /\ run_flag' = TRUE
    /\ frames_played_in_loop' = 0
    /\ runLog' = NoRun
    /\ loopPc' = "test"
    /\ UNCHANGED <<engineVars, settings, last, putVars, win, proxyVars, loopIdx, shown,
                   current_frame_num, mutex,
                   loopFr, killPending, ui, playing, pending, stopReturned, access,
                   editVars>>

\* run(): while self._run_flag; run returns when the flag is down
LoopTest ==
    /\ loopPc = "test"
    /\ loopPc' = IF Running(run_flag) THEN "lock" ELSE "idle"
    /\ killPending' = IF Running(run_flag) THEN killPending ELSE FALSE
    /\ runLog' = IF Running(run_flag) THEN [runLog EXCEPT !.reads = 0] ELSE runLog
    /\ UNCHANGED <<engineVars, settings, last, putVars, win, proxyVars, loopIdx,
                   frames_played_in_loop, shown, run_flag, current_frame_num,
                   mutex, loopFr, ui, playing, pending, stopReturned, access, editVars>>

\* run(): self.mutex.lock(); fr_r = False; fr = None
LoopLock ==
    /\ loopPc = "lock"
    /\ mutex = "free"
    /\ mutex' = "loop"
    /\ loopFr' = NoFrame
    /\ loopPc' = "check"
    /\ UNCHANGED <<engineVars, settings, last, putVars, win, proxyVars, playVars, run_flag, current_frame_num,
                   killPending, ui, playing, pending, stopReturned, access, editVars>>

\* run(): if not self._run_flag: self.mutex.unlock(); break
LoopCheck ==
    /\ loopPc = "check"
    /\ IF Running(run_flag)
       THEN loopPc' = "read" /\ UNCHANGED mutex
       ELSE loopPc' = "break" /\ mutex' \in Unlocked("loop")
    /\ UNCHANGED <<engineVars, settings, last, putVars, win, proxyVars, playVars, run_flag, current_frame_num,
                   loopFr, killPending, ui, playing, pending, stopReturned, access,
                   editVars>>

\* run(): the finally clause on the way out of the break unlocks once more,
\* then run returns
LoopBreak ==
    /\ loopPc = "break"
    /\ mutex' \in Unlocked("loop")
    /\ loopPc' = "idle"
    /\ killPending' = FALSE
    /\ UNCHANGED <<engineVars, settings, last, putVars, win, proxyVars, playVars, run_flag, current_frame_num,
                   loopFr, ui, playing, pending, stopReturned, access, editVars>>

\* run(): the else branch of `if ret` leaves the flag down (a variant leaves
\* it as it is)
FlagAfterRead_Kept(flag, ret) == flag

FlagAfterRead(flag, ret) == IF ret THEN flag ELSE FALSE

\* What the read of a run leaves in its log: one more read in the iteration,
\* the index returned, and on failure one more finished_signal.
Logged(log, ret, idx) ==
    [log EXCEPT !.finished = IF ret THEN @ ELSE @ + 1,
                !.reads = @ + 1,
                !.prev = IF ret THEN idx ELSE @,
                !.later_reads = IF log.stopped THEN @ + 1 ELSE @]

\* run(): ret, fr, idx = self.engine.read() and the branch on ret: the index
\* is published, or finished_signal is emitted and the flag cleared
LoopRead ==
    /\ loopPc = "read"
    /\ LET r == ReadOp(EngineState) IN
       /\ SetEngine(r.e)
       /\ last' = Outcome("read", -1, r.ret, r.frame, r.idx, r.e, "")
       /\ current_frame_num' = IF r.ret THEN r.idx ELSE current_frame_num
       /\ loopFr' = r.frame
       /\ loopIdx' = r.idx
       /\ run_flag' = FlagAfterRead(run_flag, r.ret)
       /\ runLog' = Logged(runLog, r.ret, r.idx)
    /\ access' = Access("loop")
    /\ loopPc' = "unlock"
    /\ UNCHANGED <<settings, putVars, win, proxyVars, frames_played_in_loop, shown, mutex,
                   killPending, ui, playing, pending, stopReturned, editVars>>

\* run(): finally: self.mutex.unlock()
LoopUnlock ==
    /\ loopPc = "unlock"
    /\ mutex' \in Unlocked("loop")
    /\ loopPc' = "emit"
    /\ UNCHANGED <<engineVars, settings, last, putVars, win, proxyVars, playVars, run_flag, current_frame_num,
                   loopFr, killPending, ui, playing, pending, stopReturned, access,
                   editVars>>

\* run(): the pacing after an iteration, `if self._run_flag and self.fps > 0`
\* (fps is 30 or the positive rate of the file): one more frame played; behind
\* says that sleep_needed < -0.2, which resets the baseline, else the loop
\* sleeps or goes on at once.
Paced(played, flag, behind) ==
    IF ~flag THEN played
    ELSE IF behind THEN 0
    ELSE played + 1

\* run(): if fr_r and fr is not None: self.change_pixmap_signal.emit(fr), and
\* the pacing. The frame is queued for update_image; the index it was read
\* with goes along in the model.
LoopEmit ==
    /\ loopPc = "emit"
    /\ IF loopFr # NoFrame
       THEN /\ Len(pending) < MaxPending
            /\ pending' = Append(pending, [frame |-> loopFr, idx |-> loopIdx])
            /\ runLog' = [runLog EXCEPT !.later_emits = IF runLog.stopped THEN @ + 1 ELSE @]
       ELSE UNCHANGED <<pending, runLog>>
    /\ \E behind \in BOOLEAN :
         /\ behind \/ ~run_flag \/ frames_played_in_loop < MaxPlayed
         /\ frames_played_in_loop' = Paced(frames_played_in_loop, run_flag, behind)
    /\ loopPc' = "test"
    /\ UNCHANGED <<engineVars, settings, last, putVars, win, proxyVars, loopIdx, shown,
                   run_flag, current_frame_num,
                   mutex, loopFr, killPending, ui, playing, stopReturned, access, editVars>>

\* QThread.terminate takes effect: the thread stops wherever it stands, at
\* once or later ("may or may not be terminated immediately"); a mutex it
\* holds stays locked.
Kill ==
    /\ killPending
    /\ loopPc # "idle"
    /\ loopPc' = "idle"
    /\ killPending' = FALSE
    /\ UNCHANGED <<engineVars, settings, last, putVars, win, proxyVars, playVars, run_flag, current_frame_num,
                   mutex, loopFr, ui, playing, pending, stopReturned, access, editVars>>

ThreadNext ==
    \/ UiTogglePlay
    \/ \E n \in ThreadSeekArgs : UiCall("seek", n)
    \/ UiCall("load", -1)
    \/ UiCall("settings", -1)
    \/ UiCall("release", -1)
    \/ UiStopSet
    \/ UiStopWait
    \/ UiStopTerminate
    \/ UiJoin
    \/ UiLock
    \/ UiBody
    \/ UiUnlock
    \/ UiRedraw
    \/ UiUpdateImage
    \/ LoopBegin
    \/ LoopTest
    \/ LoopLock
    \/ LoopCheck
    \/ LoopBreak
    \/ LoopRead
    \/ LoopUnlock
    \/ LoopEmit
    \/ Kill

\* The window with its playback thread and the engine behind the mutex.
SpecThread == Init /\ [][ThreadNext]_vars

\* ------------------------------------------------- the proxy workflows
\* The handlers of the window that delete proxy files or start a
\* ProxyGeneratorThread, run by the UI context while the playback loop is not
\* running. A handler is cut at the questions it asks the user and at each
\* deletion and each thread start; ui.pc is the point it has reached, ui.op the
\* handler, ui.arg the current_pos it captured.
\* The video the user opens, and its proxy (MJPG in .avi, the default codec).
OriginalSource == [count |-> ThreadFrames, frames |-> ThreadFrames, fast |-> FALSE, ok |-> TRUE]

ProxySource == [count |-> ThreadFrames, frames |-> ThreadFrames, fast |-> TRUE, ok |-> TRUE]

\* What is left unchanged by every step of a proxy workflow.
PxFrame ==
    UNCHANGED <<putVars, run_flag, mutex, loopPc, loopFr, killPending, playing,
                pending, stopReturned, access, proxyVars, playVars, editVars>>

\* The record of a deletion of a proxy file or of a start of the generator:
\* arg is 1 when the engine's decoder handle is open at that moment, path the
\* point of the workflow.
PxEvent(op) ==
    Outcome(op, IF cap.open THEN 1 ELSE 0, TRUE, NoFrame, -1, EngineState, ui.pc)

\* VideoThread.load_video -> VideoEngine.load, then read_one_frame: the proxy is
\* loaded when it is tried and its file exists, else the original.
LoadVideoOp(e, use_proxy) ==
    LET Result(r, r1) ==
            [e |-> r1.e, ret |-> r.ret, is_proxy_active |-> use_proxy /\ r.ret,
             frame_num |-> IF r1.ret THEN r1.idx ELSE IF r.ret THEN 0 ELSE current_frame_num,
             current_frame |-> IF r1.ret THEN r1.idx ELSE win.current_frame]
        ReadOneFrame(r) == Result(r, ReadOp(r.e))
    IN ReadOneFrame(LoadInternalOp(FullStopOp(e),
                                   IF use_proxy THEN ProxySource ELSE OriginalSource,
                                   settings))

\* seek_video(n): self.current_frame = n; thread.stop(); thread.seek(n)
SeekVideoOp(e, n) ==
    LET Result(r) ==
            [e |-> r.e, r |-> r,
             frame_num |-> IF r.ret THEN r.idx ELSE current_frame_num,
             current_frame |-> IF r.ret THEN r.idx ELSE n]
    IN Result(SeekOp(e, n))

\* open_file -> check_and_load_video(f): reset_session_data
PxOpenFile ==
    /\ ui = UiIdle
    /\ \E exists \in BOOLEAN :
         win' = [win EXCEPT !.proxy_file = exists, !.current_frame = 0]
    /\ ui' = [op |-> "open_file", pc |-> "load", arg |-> -1]
    /\ UNCHANGED <<engineVars, settings, last, current_frame_num>>
    /\ PxFrame

\* check_and_load_video: thread.load_video(path, try_proxy) and the test for
\* offering a proxy; force_proxy when the handler connects an existing proxy
PxCheckAndLoad ==
    /\ ui.pc = "load"
    /\ \E r \in {LoadVideoOp(EngineState, win.proxy_file)} :
          /\ SetEngine(r.e)
          /\ last' = Outcome("load", -1, r.ret, NoFrame, -1, r.e, "")
          /\ current_frame_num' = r.frame_num
          /\ win' = [win EXCEPT !.original_path = TRUE,
                                !.is_proxy_active = r.is_proxy_active,
                                !.current_frame = r.current_frame]
          /\ ui' = [ui EXCEPT !.pc =
                        IF ~r.is_proxy_active /\ ui.op # "connect" /\ ~win.proxy_file
                        THEN "ask_create" ELSE "finish"]
    /\ UNCHANGED settings
    /\ PxFrame

\* check_and_load_video: the question "create a proxy?"
PxAskCreate(yes) ==
    /\ ui.pc = "ask_create"
    /\ ui' = [ui EXCEPT !.pc = IF yes THEN "offer_cleanup" ELSE "finish"]
    /\ UNCHANGED <<engineVars, settings, last, current_frame_num, win>>
    /\ PxFrame

\* settings.cleanup_old_proxies(name): removes the video's proxy files; a file
\* the engine holds open is removed or not, depending on the platform
PxCleanup ==
    /\ ui.pc \in {"offer_cleanup", "manual_cleanup", "quality_cleanup"}
    /\ IF win.proxy_file
       THEN /\ last' = PxEvent("delete_proxy")
            /\ \E left \in (IF cap.open /\ win.is_proxy_active THEN BOOLEAN ELSE {FALSE}) :
                 win' = [win EXCEPT !.proxy_file = left]
       ELSE UNCHANGED <<last, win>>
    /\ ui' = [ui EXCEPT !.pc = CASE ui.pc = "offer_cleanup" -> "offer_start"
                                 [] ui.pc = "manual_cleanup" -> "manual_start"
                                 [] OTHER -> "load"]
    /\ UNCHANGED <<engineVars, settings, current_frame_num>>
    /\ PxFrame

\* start_proxy_generation: ProxyGeneratorThread(...).start(), then the progress
\* dialog
PxStartGeneration ==
    /\ ui.pc \in {"offer_start", "manual_start"}
    /\ last' = PxEvent("start_proxy")
    /\ win' = [win EXCEPT !.proxy_thread = TRUE]
    /\ ui' = [ui EXCEPT !.pc = "generating"]
    /\ UNCHANGED <<engineVars, settings, current_frame_num>>
    /\ PxFrame

\* on_proxy_finished(success): the generator ends, having written the proxy or
\* not (cancelled, or the input did not open); the video is loaded again
PxProxyFinished(success) ==
    /\ ui.pc = "generating"
    /\ \E r \in {LoadVideoOp(EngineState, success)} :
       \E s \in {SeekVideoOp(r.e, r.current_frame)} :
       \E again \in {r.current_frame > 0} :
          /\ SetEngine(IF again THEN s.e ELSE r.e)
          /\ last' = Outcome("load", -1, r.ret, NoFrame, -1, r.e, "")
          /\ current_frame_num' = IF again THEN s.frame_num ELSE r.frame_num
          /\ win' = [win EXCEPT !.proxy_thread = FALSE,
                                !.proxy_file = success,
                                !.is_proxy_active = r.is_proxy_active,
                                !.current_frame =
                                    IF again THEN s.current_frame ELSE r.current_frame]
    /\ ui' = [ui EXCEPT !.pc = "finish"]
    /\ UNCHANGED settings
    /\ PxFrame

\* The end of a handler: open_general_settings seeks back to current_pos when
\* it is past frame 0, manual_create_proxy when it connected the proxy.
PxFinish ==
    /\ ui.pc = "finish"
    /\ \E s \in {SeekVideoOp(EngineState, ui.arg)} :
          IF \/ ui.op = "settings" /\ ui.arg > 0
             \/ ui.op = "connect" /\ win.is_proxy_active
          THEN /\ SetEngine(s.e)
               /\ last' = Outcome("seek", ui.arg, s.r.ret, s.r.frame, s.r.idx, s.e, s.r.path)
               /\ current_frame_num' = s.frame_num
               /\ win' = [win EXCEPT !.current_frame = s.current_frame]
          ELSE UNCHANGED <<engineVars, last, current_frame_num, win>>
    /\ ui' = UiIdle
    /\ UNCHANGED settings
    /\ PxFrame

\* open_general_settings: thread.stop(); thread.wait(); the dialog opens
PxOpenSettings ==
    /\ ui = UiIdle
    /\ ui' = [op |-> "settings", pc |-> "dialog", arg |-> win.current_frame]
    /\ win' = [win EXCEPT !.need_restart = FALSE, !.quality_changed = FALSE]
    /\ UNCHANGED <<engineVars, settings, last, current_frame_num>>
    /\ PxFrame

\* VideoThread.full_release, called by GeneralSettingsDialog.clear_all_proxies,
\* by open_general_settings before delete_single_proxy, and by
\* manual_create_proxy
PxFullRelease ==
    /\ ui.pc \in {"dialog", "delete_release", "manual_release"}
    /\ \E e \in {ReleaseOp(EngineState)} :
       /\ SetEngine(e)
       /\ last' = Outcome("release", IF cap.open THEN 1 ELSE 0, TRUE, NoFrame, -1, e, "")
    /\ ui' = [ui EXCEPT !.pc = CASE ui.pc = "dialog" -> "clear_files"
                                 [] ui.pc = "delete_release" -> "delete_file"
                                 [] OTHER -> "manual_cleanup"]
    /\ UNCHANGED <<settings, current_frame_num, win>>
    /\ PxFrame

\* GeneralSettingsDialog.clear_all_proxies: settings.clear_all_proxies()
PxClearAll ==
    /\ ui.pc = "clear_files"
    /\ IF win.proxy_file THEN last' = PxEvent("delete_proxy") ELSE UNCHANGED last
    /\ win' = [win EXCEPT !.proxy_file = FALSE, !.need_restart = TRUE]
    /\ ui' = [ui EXCEPT !.pc = "dialog"]
    /\ UNCHANGED <<engineVars, settings, current_frame_num>>
    /\ PxFrame

\* The dialog is rejected.
PxDialogCancel ==
    /\ ui.pc = "dialog"
    /\ ui' = UiIdle
    /\ UNCHANGED <<engineVars, settings, last, current_frame_num, win>>
    /\ PxFrame

\* GeneralSettingsDialog.apply_settings with cache size c, seek effort l and the
\* proxy quality changed or not, then open_general_settings:
\* thread.update_settings_live() and the branch on need_restart
PxDialogAccept(c, l, quality) ==
    /\ ui.pc = "dialog"
    /\ settings' = [cache_size |-> c, seek_effort |-> l]
    /\ \E e \in {UpdateSettingsOp(EngineState, settings')} :
       \E restart \in {win.need_restart \/ quality} :
          /\ SetEngine(e)
          /\ last' = Outcome("update_settings", Len(cache), TRUE, NoFrame, -1, e, "")
          /\ win' = [win EXCEPT !.need_restart = restart, !.quality_changed = quality]
          /\ ui' = IF restart /\ win.original_path
                   THEN [ui EXCEPT !.pc = "ask_restart"]
                   ELSE UiIdle
    /\ UNCHANGED current_frame_num
    /\ PxFrame

\* GeneralSettingsDialog.request_delete (the button exists when the engine's
\* proxy file does), then open_general_settings: thread.update_settings_live()
\* and the branch on delete_requested
PxDialogDelete ==
    /\ ui.pc = "dialog"
    /\ win.is_proxy_active /\ win.proxy_file
    /\ \E e \in {UpdateSettingsOp(EngineState, settings)} :
       /\ SetEngine(e)
       /\ last' = Outcome("update_settings", Len(cache), TRUE, NoFrame, -1, e, "")
    /\ ui' = [ui EXCEPT !.pc = "delete_release"]
    /\ UNCHANGED <<settings, current_frame_num, win>>
    /\ PxFrame

\* open_general_settings: settings.delete_single_proxy(curr_proxy)
PxDeleteSingle ==
    /\ ui.pc = "delete_file"
    /\ IF win.proxy_file THEN last' = PxEvent("delete_proxy") ELSE UNCHANGED last
    /\ win' = [win EXCEPT !.proxy_file = FALSE]
    /\ ui' = [ui EXCEPT !.pc = "load"]
    /\ UNCHANGED <<engineVars, settings, current_frame_num>>
    /\ PxFrame

\* open_general_settings: the question "reload the video?"; on yes the old
\* proxies are cleaned up when the quality changed, on no the video is loaded
\* again only if the engine is closed
PxAskRestart(yes) ==
    /\ ui.pc = "ask_restart"
    /\ ui' = IF yes
             THEN [ui EXCEPT !.pc = IF win.quality_changed THEN "quality_cleanup" ELSE "load"]
             ELSE IF ~cap.open THEN [ui EXCEPT !.pc = "load"] ELSE UiIdle
    /\ UNCHANGED <<engineVars, settings, last, current_frame_num, win>>
    /\ PxFrame

\* manual_create_proxy: connects a proxy that exists and is not active, else
\* releases the engine to create one
PxManualCreate ==
    /\ ui = UiIdle
    /\ win.original_path
    /\ ui' = IF win.proxy_file /\ ~win.is_proxy_active
             THEN [op |-> "connect", pc |-> "load", arg |-> win.current_frame]
             ELSE [op |-> "manual", pc |-> "manual_release", arg |-> win.current_frame]
    /\ UNCHANGED <<engineVars, settings, last, current_frame_num, win>>
    /\ PxFrame

\* seek_video(n) between two handlers
PxSeekVideo(n) ==
    /\ ui = UiIdle
    /\ \E s \in {SeekVideoOp(EngineState, n)} :
          /\ SetEngine(s.e)
          /\ last' = Outcome("seek", n, s.r.ret, s.r.frame, s.r.idx, s.e, s.r.path)
          /\ current_frame_num' = s.frame_num
          /\ win' = [win EXCEPT !.current_frame = s.current_frame]
    /\ UNCHANGED <<settings, ui>>
    /\ PxFrame

ProxyNext ==
    \/ PxOpenFile
    \/ PxCheckAndLoad
    \/ \E yes \in BOOLEAN : PxAskCreate(yes)
    \/ PxCleanup
    \/ PxStartGeneration
    \/ \E success \in BOOLEAN : PxProxyFinished(success)
    \/ PxFinish
    \/ PxOpenSettings
    \/ PxFullRelease
    \/ PxClearAll
    \/ PxDialogCancel
    \/ \E c \in CacheSizes, l \in SeekEfforts, quality \in BOOLEAN : PxDialogAccept(c, l, quality)
    \/ PxDialogDelete
    \/ PxDeleteSingle
    \/ \E yes \in BOOLEAN : PxAskRestart(yes)
    \/ PxManualCreate
    \/ \E n \in ThreadSeekArgs : PxSeekVideo(n)

\* The window's proxy workflows over the engine.
SpecProxy == Init /\ [][ProxyNext]_vars

\* ------------------------------------------------------- the transcoder
\* ProxyGeneratorThread: run() executed by its own thread, cut at the calls
\* into the decoder, the writer and the file system, and stop() called by the
\* UI context at any moment.
\* The inputs: one that does not open; one-frame inputs of every width and
\* height; inputs of a fixed size whose container reports no frame count, the
\* frames it holds, or fewer.
GenInputs ==
    { [ok |-> FALSE, total |-> 0, frames |-> 0, width |-> 0, height |-> 0] }
    \cup { [ok |-> TRUE, total |-> 1, frames |-> 1, width |-> w, height |-> h] :
             w \in 1..GenDim, h \in 1..GenDim }
    \cup { [ok |-> TRUE, total |-> t, frames |-> f, width |-> 2, height |-> 2] :
             t \in {0, PROGRESS_EVERY, GenFrames}, f \in {PROGRESS_EVERY, GenFrames} }

\* The codec argument: the default (main.py passes none), one more the
\* transcoder knows, and one it does not.
GenCodecs == {"MJPG", "hevc", "other"}

\* run(): the fourcc chosen for self.codec
Fourcc(codec) ==
    CASE codec \in {"MJPG", "mp4v", "avc1"} -> codec
      [] codec = "hevc" -> "HEVC"
      [] OTHER -> "mp4v"

\* SettingsManager.get_proxy_extension
ProxyExtension(codec) == IF codec = "MJPG" THEN ".avi" ELSE ".mp4"

\* The proxy codecs of the settings.
ProxyCodecs == {"MJPG", "mp4v"}

\* The name of the transcoded video.
GenName == <<"k">>

\* int(width * (new_height / height)): the product of the float ratio is
\* truncated; where the exact quotient is an integer q the float product can
\* fall just below it and truncate to q - 1 (22 * (15 / 22) gives 14).
ScaledWidths(width, height, new_height) ==
    LET q == (width * new_height) \div height IN
    {q} \cup (IF (width * new_height) % height = 0 /\ q > 0 THEN {q - 1} ELSE {})

\* if n % 2 != 0: n += 1, with n rounded down to even in its place
EvenUp_RoundsDown(n) == IF n % 2 # 0 THEN n - 1 ELSE n

\* if n % 2 != 0: n += 1
EvenUp(n) == IF n % 2 # 0 THEN n + 1 ELSE n

\* int((count / total) * 100), truncated like ScaledWidths
Percents(count, total) ==
    LET q == (count * 100) \div total IN
    {q} \cup (IF (count * 100) % total = 0 /\ q > 0 THEN {q - 1} ELSE {})

\* os.path.splitext(self.output_path)[0] + ".mp4"
FallbackPath(path) == [path EXCEPT !.ext = ".mp4"]

\* What every step of the transcoder leaves unchanged.
GenFrame ==
    UNCHANGED <<engineVars, settings, last, putVars, threadVars, win, proxies_dir, source,
                proxy_settings, editVars>>

\* ProxyGeneratorThread.__init__ and start(): output_path is
\* generate_proxy_path(path, quality) under the proxy codec of the settings,
\* target_height the quality.
GenCreate(input, codec, proxy_codec, quality) ==
    /\ gen.pc = "none"
    /\ gen' = [NoGen EXCEPT !.pc = "created", !.input = input, !.codec = codec,
                            !.target_height = quality,
                            !.output_path = [name |-> GenName, quality |-> quality,
                                             ext |-> ProxyExtension(proxy_codec)],
                            !.requested = [name |-> GenName, quality |-> quality,
                                           ext |-> ProxyExtension(proxy_codec)]]
    /\ GenFrame

\* ProxyGeneratorThread.stop
GenStop ==
    /\ gen.pc \notin {"none", "done"}
    /\ gen.is_running
    /\ gen' = [gen EXCEPT !.is_running = FALSE, !.cancelled = gen.pc = "loop"]
    /\ GenFrame

\* run() as it would be if it returned without a signal when the source does
\* not open.
GenOpenInput_Silent ==
    /\ gen.pc = "created"
    /\ gen' = IF gen.input.ok
              THEN [gen EXCEPT !.pc = "size"]
              ELSE [gen EXCEPT !.pc = "done"]
    /\ GenFrame

\* run(): cv2.VideoCapture(self.input_path) and the test of isOpened
GenOpenInput ==
    /\ gen.pc = "created"
    /\ gen' = IF gen.input.ok
              THEN [gen EXCEPT !.pc = "size"]
              ELSE [gen EXCEPT !.pc = "done",
                               !.finished = Append(@, [success |-> FALSE, path |-> NoPath])]
    /\ GenFrame

\* run(): the output size, scaled to target_height when the input is higher,
\* each dimension made even
OutputSize(g, scaled) ==
    LET shrink == g.target_height > 0 /\ g.input.height > g.target_height IN
    [g EXCEPT !.scaled_width = IF shrink THEN scaled ELSE g.input.width,
              !.new_width = EvenUp(IF shrink THEN scaled ELSE g.input.width),
              !.new_height = EvenUp(IF shrink THEN g.target_height ELSE g.input.height)]

GenSize ==
    /\ gen.pc = "size"
    /\ \E scaled \in ScaledWidths(gen.input.width, gen.input.height, gen.target_height) :
         gen' = [OutputSize(gen, scaled) EXCEPT !.pc = "writer"]
    /\ GenFrame

\* run(): the fallback that keeps the path it was given
OpenWriter_SilentFallback(g, first, second) ==
    IF first
    THEN [g EXCEPT !.pc = "loop", !.fourcc = Fourcc(g.codec),
                   !.writer = g.output_path,
                   !.disk = @ \cup {g.output_path}]
    ELSE IF second
    THEN [g EXCEPT !.pc = "loop", !.fourcc = "mp4v",
                   !.writer = FallbackPath(g.output_path),
                   !.disk = @ \cup {FallbackPath(g.output_path)}]
    ELSE [g EXCEPT !.pc = "done", !.output_path = FallbackPath(g.output_path),
                   !.finished = Append(@, [success |-> FALSE, path |-> NoPath])]

\* run(): cv2.VideoWriter(self.output_path, ...) opens (first) or not; if not,
\* the writer for mp4v on the .mp4 path opens (second) or not. A writer that
\* opens creates its file.
OpenWriter(g, first, second) ==
    IF first
    THEN [g EXCEPT !.pc = "loop", !.fourcc = Fourcc(g.codec),
                   !.writer = g.output_path,
                   !.disk = @ \cup {g.output_path}]
    ELSE IF second
    THEN [g EXCEPT !.pc = "loop", !.fourcc = "mp4v",
                   !.output_path = FallbackPath(g.output_path),
                   !.writer = FallbackPath(g.output_path),
                   !.disk = @ \cup {FallbackPath(g.output_path)}]
    ELSE [g EXCEPT !.pc = "done", !.output_path = FallbackPath(g.output_path),
                   !.finished = Append(@, [success |-> FALSE, path |-> NoPath])]

GenOpenWriter(first, second) ==
    /\ gen.pc = "writer"
    /\ gen' = OpenWriter(gen, first, second)
    /\ GenFrame

\* run(): one pass of `while self._is_running`: the loop ends when the flag is
\* down or the read fails; else the frame is written, counted, and every
\* PROGRESS_EVERY frames the percentage is emitted if total > 0
GenIterate ==
    /\ gen.pc = "loop"
    /\ IF ~gen.is_running \/ gen.count >= gen.input.frames
       THEN gen' = [gen EXCEPT !.pc = "release"]
       ELSE IF gen.input.total > 0 /\ (gen.count + 1) % PROGRESS_EVERY = 0
       THEN \E percent \in Percents(gen.count + 1, gen.input.total) :
              gen' = [gen EXCEPT !.count = @ + 1, !.progress = Append(@, percent)]
       ELSE gen' = [gen EXCEPT !.count = @ + 1]
    /\ GenFrame

\* run(): cap.release(); out.release(); success is emitted with output_path if
\* the flag is still up; else the output is removed, unless os.remove raises
\* OSError (removed is FALSE), and failure is emitted
GenFinish(removed) ==
    /\ gen.pc = "release"
    /\ gen' = IF gen.is_running
              THEN [gen EXCEPT !.pc = "done", !.writer = NoPath,
                       !.finished = Append(@, [success |-> TRUE, path |-> gen.output_path])]
              ELSE [gen EXCEPT !.pc = "done", !.writer = NoPath,
                       !.disk = IF removed THEN @ \ {gen.output_path} ELSE @,
                       !.finished = Append(@, [success |-> FALSE, path |-> NoPath])]
    /\ GenFrame

GenNext ==
    \/ \E input \in GenInputs, codec \in GenCodecs, proxy_codec \in ProxyCodecs,
          quality \in 0..GenDim :
         GenCreate(input, codec, proxy_codec, quality)
    \/ GenStop
    \/ GenOpenInput
    \/ GenSize
    \/ \E first \in BOOLEAN, second \in BOOLEAN : GenOpenWriter(first, second)
    \/ GenIterate
    \/ \E removed \in BOOLEAN : GenFinish(removed)

\* A ProxyGeneratorThread from construction to its finished signal.
SpecGen == Init /\ [][GenNext]_vars

\* One step of run().
GenRun ==
    \/ GenOpenInput
    \/ GenSize
    \/ \E first \in BOOLEAN, second \in BOOLEAN : GenOpenWriter(first, second)
    \/ GenIterate
    \/ \E removed \in BOOLEAN : GenFinish(removed)

\* A ProxyGeneratorThread that was started: the thread the scheduler runs until
\* run() returns.
SpecGenRun == Init /\ [][GenNext]_vars /\ WF_vars(GenRun)

\* ------------------------------------------------- the choice of a proxy
\* VideoEngine.load, find_existing_proxy and generate_proxy_path over the
\* files of the proxies directory. A file name is a string of characters; the
\* model writes it as a sequence whose elements are the characters of the
\* video's name and, each as one element, "_proxy_", the quality's digits, "p"
\* and the extension.
\* The names of the videos: a plain one, one in square brackets, and one that
\* continues the plain one with "_proxy_".
VideoNames == { <<"k">>, <<"[", "k", "]">>, <<"k", "_proxy_", "z">> }

ProxyQualities == {540, 720}

ProxyExts == {".avi", ".mp4"}

\* The files that can lie in the directory: name, quality and extension make
\* the path {name}_proxy_{quality}p{ext}; size is getsize, at the threshold or
\* one above; opens is whether a decoder backend opens the file.
ProxyFiles ==
    { f \in [name : VideoNames, quality : ProxyQualities, ext : ProxyExts,
             size : {MIN_PROXY_SIZE, MIN_PROXY_SIZE + 1}, opens : BOOLEAN] :
        f.size <= MIN_PROXY_SIZE => f.opens }

NoFile == [name |-> <<>>, quality |-> 0, ext |-> "", size |-> 0, opens |-> FALSE]

ProxyPath(f) == [name |-> f.name, quality |-> f.quality, ext |-> f.ext]

\* The file's name as a string.
FileString(path) == path.name \o <<"_proxy_", ToString(path.quality), "p", path.ext>>

\* os.path.join(proxies_dir, f"{name}_proxy_*") + ext: the video's name goes
\* into the pattern as it is
GlobPattern(name, ext) == name \o <<"_proxy_", "*", ext>>

\* fnmatch: the positions past p[2] at which a "]" closes the class p[1] = "[" opens
ClassEnds(p) == { j \in 3..Len(p) : p[j] = "]" }

\* fnmatch (glob.glob on one directory): "*" matches any run of characters,
\* "[seq]" one character of seq, a "[" that no "]" closes and every other
\* character itself
RECURSIVE GlobMatch(_, _)
GlobMatch(p, str) ==
    IF p = <<>> THEN str = <<>>
    ELSE IF Head(p) = "*"
    THEN GlobMatch(Tail(p), str) \/ (str # <<>> /\ GlobMatch(p, Tail(str)))
    ELSE IF Head(p) = "[" /\ ClassEnds(p) # {}
    THEN LET j == CHOOSE k \in ClassEnds(p) : \A m \in ClassEnds(p) : k <= m IN
         /\ str # <<>>
         /\ Head(str) \in { p[i] : i \in 2..(j - 1) }
         /\ GlobMatch(SubSeq(p, j + 1, Len(p)), Tail(str))
    ELSE /\ str # <<>>
         /\ Head(str) = Head(p)
         /\ GlobMatch(Tail(p), Tail(str))

\* glob.glob(pattern) in the proxies directory
Glob(dir, name, ext) == { f \in dir : GlobMatch(GlobPattern(name, ext), FileString(ProxyPath(f))) }

\* getsize > 1000, as it would be with the threshold itself accepted
Valid_AtThreshold(f) == f.size >= MIN_PROXY_SIZE

\* os.path.getsize(c) > 1000
Valid(f) == f.size > MIN_PROXY_SIZE

\* VideoEngine.generate_proxy_path
GenerateProxyPath(name, quality) ==
    [name |-> name, quality |-> quality, ext |-> ProxyExtension(proxy_settings.proxy_codec)]

\* VideoEngine.find_existing_proxy
FindExistingProxyOp(dir, name) ==
    /\ name # <<>>
    /\ \E ext \in ProxyExts : \E f \in Glob(dir, name, ext) : Valid(f)

\* VideoEngine.load: the files found_proxy can be. The candidates are the
\* expected path, then the same with .avi, then with .mp4; if none is a valid
\* file, the first valid one of glob(.avi) + glob(.mp4), each glob in the
\* order the directory lists its files.
FoundProxies(dir, name) ==
    LET expected == GenerateProxyPath(name, proxy_settings.proxy_quality)
        At(ext) == { f \in dir : ProxyPath(f) = [expected EXCEPT !.ext = ext] /\ Valid(f) }
        Listed(ext) == { f \in Glob(dir, name, ext) : Valid(f) }
    IN IF At(expected.ext) # {} THEN At(expected.ext)
       ELSE IF At(".avi") # {} THEN At(".avi")
       ELSE IF At(".mp4") # {} THEN At(".mp4")
       ELSE IF Listed(".avi") # {} THEN Listed(".avi")
       ELSE Listed(".mp4")

\* The decoder's view of a proxy file and of the original.
ProxySourceOf(f) ==
    [count |-> ThreadFrames, frames |-> ThreadFrames, fast |-> f.ext = ".avi", ok |-> f.opens]

OriginalSourceOf(ok) ==
    [count |-> ThreadFrames, frames |-> ThreadFrames, fast |-> FALSE, ok |-> ok]

\* VideoEngine.load(path, try_proxy) with found_proxy = found (NoFile for None)
LoadOp(e, name, found, original_ok, st) ==
    LET Original(r) ==
            [e |-> r.e, ret |-> r.ret,
             source |-> [original_path |-> name, is_proxy_active |-> FALSE,
                         proxy_path |-> NoPath, opened |-> NoPath,
                         on_original |-> r.ret]]
        Proxy(r) ==
            IF r.ret
            THEN [e |-> r.e, ret |-> TRUE,
                  source |-> [original_path |-> name, is_proxy_active |-> TRUE,
                              proxy_path |-> ProxyPath(found), opened |-> ProxyPath(found),
                              on_original |-> FALSE]]
            ELSE Original(LoadInternalOp(FullStopOp(r.e), OriginalSourceOf(original_ok), st))
    IN IF found # NoFile
       THEN Proxy(LoadInternalOp(FullStopOp(e), ProxySourceOf(found), st))
       ELSE Original(LoadInternalOp(FullStopOp(e), OriginalSourceOf(original_ok), st))

\* What the steps on the proxies directory leave unchanged.
DirFrame == UNCHANGED <<settings, putVars, threadVars, win, gen, editVars>>

\* The settings dialog stores proxy_quality and proxy_codec.
SetProxySettings(quality, codec) ==
    /\ last.op = "init"
    /\ proxies_dir = {}
    /\ proxy_settings' = [proxy_quality |-> quality, proxy_codec |-> codec]
    /\ UNCHANGED <<engineVars, last, proxies_dir, source>>
    /\ DirFrame

\* A transcoder, finished or interrupted, leaves the file f in the directory.
\* The directory is filled before the engine is used, so that after a call
\* the state still holds the directory the call has seen.
DirPut(f) ==
    /\ last.op = "init"
    /\ Cardinality(proxies_dir) < MaxFiles
    /\ \A g \in proxies_dir : ProxyPath(g) # ProxyPath(f)
    /\ proxies_dir' = proxies_dir \cup {f}
    /\ UNCHANGED <<engineVars, last, source, proxy_settings>>
    /\ DirFrame

\* VideoEngine.load(path, try_proxy)
LoadPath(name, try_proxy, original_ok) ==
    /\ \E found \in (IF try_proxy /\ FoundProxies(proxies_dir, name) # {}
                     THEN FoundProxies(proxies_dir, name) ELSE {NoFile}) :
       \E r \in {LoadOp(EngineState, name, found, original_ok, settings)} :
          /\ SetEngine(r.e)
          /\ source' = r.source
          /\ last' = Outcome("load", IF try_proxy THEN 1 ELSE 0, r.ret, NoFrame, -1, r.e, "")
    /\ UNCHANGED <<proxies_dir, proxy_settings>>
    /\ DirFrame

\* VideoEngine.find_existing_proxy(eng.original_path), as the window calls it
FindExistingProxy ==
    /\ last' = Outcome("find_existing_proxy", -1,
                       FindExistingProxyOp(proxies_dir, source.original_path),
                       NoFrame, -1, EngineState, "")
    /\ UNCHANGED <<engineVars, proxies_dir, source, proxy_settings>>
    /\ DirFrame

DirNext ==
    \/ \E quality \in ProxyQualities, codec \in ProxyCodecs : SetProxySettings(quality, codec)
    \/ \E f \in ProxyFiles : DirPut(f)
    \/ \E name \in VideoNames, try_proxy \in BOOLEAN, original_ok \in BOOLEAN :
         LoadPath(name, try_proxy, original_ok)
    \/ FindExistingProxy

\* The engine's choice between a video and its proxies.
SpecDir == Init /\ [][DirNext]_vars

\* The engine loaded from the directory and closed again: load, full_stop and
\* release as the window calls them before it deletes or rebuilds a proxy.
SourceNext ==
    \/ \E f \in ProxyFiles : DirPut(f)
    \/ \E name \in VideoNames, try_proxy \in BOOLEAN, original_ok \in BOOLEAN :
         LoadPath(name, try_proxy, original_ok)
    \/ FullStop
    \/ Release

SpecSource == Init /\ [][SourceNext]_vars

\* ------------------------------------------------- the start of a transcoder
\* start_proxy_generation(input_path, output_path): the output path is
\* generate_proxy_path(path, proxy_quality), whose extension follows the
\* proxy codec of the settings; the thread is constructed with target_height
\* = proxy_quality and no codec argument, so with the default "MJPG".
StartProxyGeneration(input) ==
    GenCreate(input, "MJPG", proxy_settings.proxy_codec, proxy_settings.proxy_quality)

StartNext ==
    \/ \E quality \in ProxyQualities, codec \in ProxyCodecs : SetProxySettings(quality, codec)
    \/ \E input \in GenInputs : StartProxyGeneration(input)
    \/ GenStop
    \/ GenOpenInput
    \/ GenSize
    \/ \E first \in BOOLEAN, second \in BOOLEAN : GenOpenWriter(first, second)
    \/ GenIterate
    \/ \E removed \in BOOLEAN : GenFinish(removed)

\* The transcoders the window starts, under the settings of the dialog.
SpecStart == Init /\ [][StartNext]_vars

\* ------------------------------------------------- the segment editor
\* What get_info reports of a file the engine has opened: total is
\* CAP_PROP_FRAME_COUNT (0 when the container gives none), fps the frame rate.
\* The rates are exact as floats, and so is their ratio.
EditRates == {25, 50}

EditSources == [total : 0..EditFrames, fps : EditRates]

Segment(a, b) == [start |-> a, end |-> b]

\* The element of a Python list at index i.
At(list, i) == list[i + 1]

\* list.pop(i) and list.insert(i, x), for 0 <= i < len(list) and 0 <= i <= len(list)
Pop(list, i) == SubSeq(list, 1, i) \o SubSeq(list, i + 2, Len(list))

Insert(list, i, x) == SubSeq(list, 1, i) \o <<x>> \o SubSeq(list, i + 1, Len(list))

\* int(x * ratio) with ratio = fps / old_fps
Remap(x, fps, old_fps) == (x * fps) \div old_fps

\* set_video_info: the remapping of a saved segment list by the ratio, done
\* when `abs(self.fps - old_fps) > 0.1`
RemapSegments(segments, fps, old_fps) ==
    IF fps = old_fps THEN segments
    ELSE [i \in 1..Len(segments) |->
            Segment(Remap(segments[i].start, fps, old_fps),
                    Remap(segments[i].end, fps, old_fps))]

\* _remap_history_data
RemapHistory(history, fps, old_fps) ==
    [i \in 1..Len(history) |-> RemapSegments(history[i], fps, old_fps)]

\* save_state: the redo stack is cleared and a copy of the segments pushed
\* (is_undoing is false in every handler that calls it)
SaveState(ed) ==
    LET h == Append(ed.history, ed.segments) IN
    [ed EXCEPT !.redo_stack = <<>>,
               !.history = IF Len(h) > HISTORY_LIMIT THEN Tail(h) ELSE h]

\* The index of the first segment with start <= frame < end, or -1
RECURSIVE SegmentAt(_, _, _)
SegmentAt(segments, frame, i) ==
    IF i >= Len(segments) THEN -1
    ELSE IF At(segments, i).start <= frame /\ frame < At(segments, i).end THEN i
    ELSE SegmentAt(segments, frame, i + 1)

\* What touches only the editor.
EditFrame ==
    UNCHANGED <<engineVars, settings, last, putVars, threadVars, win, proxyVars, removal>>

\* set_video_info(info) with no state kept for a reload: a video is opened
EdOpen(info) ==
    /\ editor' = [loaded |-> TRUE, total_frames |-> info.total, fps |-> info.fps,
                  segments |-> <<Segment(0, info.total)>>,
                  history |-> <<>>, redo_stack |-> <<>>, current_frame |-> 0,
                  selected_segment_idx |-> 0]
    /\ EditFrame

\* A reload of the video from its proxy or its original:
\* _temp_state_for_reload = capture_session_state(), the engine is released
\* and loaded, and set_video_info(info) restores the state, remapped when the
\* frame rate differs. The position sought afterwards lies in the new file.
EdReload(info, frame) ==
    /\ editor.loaded
    /\ info.total > 0 => frame < info.total
    /\ editor' = [loaded |-> TRUE, total_frames |-> info.total, fps |-> info.fps,
                  segments |-> RemapSegments(editor.segments, info.fps, editor.fps),
                  history |-> RemapHistory(editor.history, info.fps, editor.fps),
                  redo_stack |-> RemapHistory(editor.redo_stack, info.fps, editor.fps),
                  current_frame |-> frame,
                  selected_segment_idx |-> 0]
    /\ EditFrame

\* seek_video(frame), from the scrubber or the timeline: self.current_frame = frame
EdSeek(frame) ==
    /\ editor.loaded
    /\ frame < editor.total_frames
    /\ editor' = [editor EXCEPT !.current_frame = frame]
    /\ EditFrame

\* A click on the timeline's track selects the segment under it, or nothing
EdSelect(idx) ==
    /\ editor.loaded
    /\ idx < Len(editor.segments)
    /\ editor' = [editor EXCEPT !.selected_segment_idx = idx]
    /\ EditFrame

\* split_segment, the dialog accepted with choice "left" or "right"
EdSplit(choice) ==
    /\ editor.loaded
    /\ Len(editor.history) < MaxHistory
    /\ LET idx == SegmentAt(editor.segments, editor.current_frame, 0)
           old == At(editor.segments, idx)
           mid == editor.current_frame
           s1 == IF choice = "left" THEN Segment(old.start, mid + 1)
                 ELSE Segment(old.start, mid)
           s2 == IF choice = "left" THEN Segment(mid + 1, old.end)
                 ELSE Segment(mid, old.end)
           ed == SaveState(editor)
       IN /\ idx # -1
          /\ editor' = IF s1.end <= s1.start \/ s2.end <= s2.start
                        THEN ed
                        ELSE [ed EXCEPT
                                !.segments = Insert(Insert(Pop(@, idx), idx, s2), idx, s1),
                                !.selected_segment_idx =
                                    IF choice = "left" THEN idx ELSE idx + 1]
    /\ EditFrame

\* delete_selection with no marker selected: the selected segment is
\* removed and its neighbour stretched over it; pop raises IndexError on a
\* selection past the end of the list, after save_state
EdDelete ==
    /\ editor.loaded
    /\ Len(editor.history) < MaxHistory
    /\ LET idx == editor.selected_segment_idx
           ed == SaveState(editor)
           deleted == At(editor.segments, idx)
           rest == Pop(editor.segments, idx)
       IN editor' =
            IF idx = -1 \/ Len(editor.segments) <= 1 \/ idx >= Len(editor.segments)
            THEN ed
            ELSE [ed EXCEPT
                    !.segments =
                        IF idx > 0
                        THEN [rest EXCEPT ![idx] = Segment(@.start, deleted.end)]
                        ELSE [rest EXCEPT ![1] = Segment(deleted.start, @.end)],
                    !.selected_segment_idx = -1]
    /\ EditFrame

\* on_timeline_click in merge mode with two neighbours i1, i1 + 1 chosen:
\* perform_merge(i1, i2)
EdMerge(i1) ==
    /\ editor.loaded
    /\ Len(editor.history) < MaxHistory
    /\ i1 + 1 < Len(editor.segments)
    /\ LET i2 == i1 + 1
           seg1 == At(editor.segments, i1)
           seg2 == At(editor.segments, i2)
           new_seg == Segment(Min(seg1.start, seg2.start), Max(seg1.end, seg2.end))
       IN editor' = [SaveState(editor) EXCEPT
                       !.segments = Insert(Pop(Pop(@, i2), i1), i1, new_seg),
                       !.selected_segment_idx = i1]
    /\ EditFrame

\* undo_action
EdUndo ==
    /\ editor.history # <<>>
    /\ LET state == editor.history[Len(editor.history)] IN
       editor' = [editor EXCEPT
                    !.redo_stack = Append(@, editor.segments),
                    !.history = SubSeq(@, 1, Len(@) - 1),
                    !.segments = IF state = <<>> /\ editor.total_frames > 0
                                 THEN <<Segment(0, editor.total_frames)>>
                                 ELSE state]
    /\ EditFrame

\* redo_action
EdRedo ==
    /\ editor.redo_stack # <<>>
    /\ editor' = [editor EXCEPT
                    !.history = Append(@, editor.segments),
                    !.redo_stack = SubSeq(@, 1, Len(@) - 1),
                    !.segments = editor.redo_stack[Len(editor.redo_stack)]]
    /\ EditFrame

EditNext ==
    \/ \E info \in EditSources : editor = NoEditor /\ EdOpen(info)
    \/ \E info \in EditSources : \E frame \in 0..EditFrames : EdReload(info, frame)
    \/ \E frame \in 0..(EditFrames - 1) : EdSeek(frame)
    \/ \E idx \in -1..(EditFrames - 1) : EdSelect(idx)
    \/ \E choice \in {"left", "right"} : EdSplit(choice)
    \/ EdDelete
    \/ \E i1 \in 0..(EditFrames - 1) : EdMerge(i1)
    \/ EdUndo
    \/ EdRedo

\* The window's segment list under the editing handlers and reloads.
SpecEdit == Init /\ [][EditNext]_vars

\* ------------------------------------------------- the deletion of a proxy
\* The arguments of delete_single_proxy: engine.proxy_path, which is a path of
\* the proxies directory, or empty.
DeletePaths == { ProxyPath(f) : f \in ProxyFiles } \cup {NoPath}

\* os.path.exists(path)
Exists(dir, path) == \E f \in dir : ProxyPath(f) = path

\* The for loop goes round again (a variant never gives up)
Retry_Forever(attempts) == TRUE

\* `for _ in range(5)`: the loop goes round again after attempts attempts
Retry(attempts) == attempts < DELETE_ATTEMPTS

\* What touches neither the directory's files nor the deletion.
DeleteFrame ==
    UNCHANGED <<engineVars, settings, last, putVars, threadVars, win, gen, source,
                proxy_settings, editor>>

\* delete_single_proxy(proxy_path): `if proxy_path and os.path.exists(proxy_path)`
\* enters the for loop, else the function returns False
DeleteSingleProxy(path) ==
    /\ removal.pc \in {"none", "done"}
    /\ removal' = IF path # NoPath /\ Exists(proxies_dir, path)
                  THEN [pc |-> "try", path |-> path, attempts |-> 0, result |-> FALSE]
                  ELSE [pc |-> "done", path |-> path, attempts |-> 0, result |-> FALSE]
    /\ UNCHANGED proxies_dir
    /\ DeleteFrame

\* One round of the for loop: os.remove(proxy_path) removes the file and the
\* function returns True, or raises OSError (the file is locked, or gone),
\* the function sleeps, and after the last round returns False.
DeleteAttempt(raises) ==
    /\ removal.pc = "try"
    /\ ~raises => Exists(proxies_dir, removal.path)
    /\ proxies_dir' = IF raises THEN proxies_dir
                      ELSE { f \in proxies_dir : ProxyPath(f) # removal.path }
    /\ removal' = [removal EXCEPT
                      !.attempts = @ + 1,
                      !.result = ~raises,
                      !.pc = IF raises /\ Retry(removal.attempts + 1) THEN "try" ELSE "done"]
    /\ DeleteFrame

\* Another program removes a file of the directory (the user, a cleaner).
DirVanish(f) ==
    /\ f \in proxies_dir
    /\ proxies_dir' = proxies_dir \ {f}
    /\ UNCHANGED removal
    /\ DeleteFrame

DeleteNext ==
    \/ \E f \in ProxyFiles : DirPut(f)
    \/ \E f \in ProxyFiles : DirVanish(f)
    \/ \E path \in DeletePaths : DeleteSingleProxy(path)
    \/ \E raises \in BOOLEAN : DeleteAttempt(raises)

\* The for loop of delete_single_proxy goes on: time.sleep(0.2) returns.
SpecDelete ==
    Init /\ [][DeleteNext]_vars /\ WF_vars(\E raises \in BOOLEAN : DeleteAttempt(raises))

\* --------------------------------------------------- the engine's claims
\* The open stream delivers every frame it reports, and the engine's
\* total_frames is that number N.
ExactSource ==
    cap.open /\ cap.frames = cap.count /\ total_frames = cap.count

\* The last call was seek(k) with 0 <= k < N on such a stream.
SeekInRange ==
    last.op = "seek" /\ ExactSource /\ last.arg >= 0 /\ last.arg < total_frames

\* C1: on an open source with N frames, from every reachable engine state,
\* seek(k) with 0 <= k < N succeeds and returns the frame of index k together
\* with the reported index k.
C1_SeekReturnsTarget ==
    SeekInRange =>
        /\ last.ok
        /\ last.frame = last.arg
        /\ last.idx = last.arg

\* C2: after a successful seek(k), 0 <= k < N, that returned frame k, the
\* immediately following read returns the frame of index k+1, or reports the
\* end of the stream when k = N-1.
C2_ReadFollowsSeek ==
    [][(/\ SeekInRange /\ last.ok /\ last.idx = last.arg /\ last.frame = last.arg
        /\ last'.op = "read")
       => IF last.arg = total_frames - 1
          THEN ~last'.ok
          ELSE /\ last'.ok
               /\ last'.frame = last.arg + 1
               /\ last'.idx = last.arg + 1]_vars

\* C3: in every reachable state of the engine the frame cache holds at most
\* CACHE_SIZE entries.
C3_CacheBound == Len(cache) <= CACHE_SIZE

\* C3's case: a live settings update has shrunk the capacity to 1 and the one
\* entry kept is a frame decoded after the first.
C3_Witness ==
    /\ last.op = "update_settings"
    /\ CACHE_SIZE = 1
    /\ CACHE_SIZE < MaxCache
    /\ Len(cache) = CACHE_SIZE
    /\ cache[1][1] >= 1

\* C8: seek never reports success together with a frame or an index other than
\* the clamped target, and when the stream ends before the clamped target can
\* be decoded seek reports failure.
C8_UnreachableTargetFails ==
    (last.op = "seek" /\ cap.open) =>
        LET target == ClampTarget(EngineState, last.arg) IN
        /\ last.ok => (last.idx = target /\ last.frame = target)
        /\ target >= cap.frames => ~last.ok

\* C37: whenever the engine is open, after every completed read or seek,
\* successful or not, the decoder's next-read position is
\* current_frame_index + 1.
C37_IndexTracksDecoder ==
    (cap.open /\ last.op \in {"read", "seek"}) => cap.pos = current_frame_index + 1

\* C38: in every reachable state the keys of cache_index_map are the indices
\* stored in the cache deque, no index occurs twice in the deque, and the frame
\* the map holds for an index is the frame stored with it in the deque.
C38_MapMirrorsDeque ==
    /\ DOMAIN cache_index_map = CacheIndices(cache)
    /\ \A i, j \in 1..Len(cache) : cache[i][1] = cache[j][1] => i = j
    /\ \A i \in 1..Len(cache) : cache_index_map[cache[i][1]] = cache[i][2]

\* C38's case: a full cache of the largest capacity, filled past its first
\* entries, was shrunk to capacity 1 by a live resize: the map holds the one
\* entry left, which is not the first frame of the stream.
C38_Witness ==
    /\ last.op = "update_settings"
    /\ last.arg = MaxCache
    /\ MaxCache > 1
    /\ cache_maxlen = 1
    /\ Len(cache) = 1
    /\ cache[1][1] > 1
    /\ DOMAIN cache_index_map = {cache[1][1]}

\* ---------------------------------------------------- the cache's claims
\* The entries present in the cache, oldest insertion first, as the record of
\* insertions orders them.
PresentByInsertion == SelectSeq(inserted, LAMBDA i : i \in CacheIndices(cache))

\* The indices of the deque's entries, left to right.
CacheOrder == [i \in 1..Len(cache) |-> cache[i][1]]

\* The last n elements of s.
LastN(s, n) == SubSeq(s, Len(s) - n + 1, Len(s))

\* C4: when _update_cache inserts an absent index into a full cache, exactly
\* one entry is evicted, the earliest-inserted one still present; and once
\* 3 * CACHE_SIZE insertions have been made the cache holds exactly the
\* CACHE_SIZE most recently inserted indices, in insertion order.
C4_FifoEviction ==
    /\ [](nInserted >= 3 * CACHE_SIZE => CacheOrder = LastN(inserted, CACHE_SIZE))
    /\ [][(last'.op = "put" /\ last'.ok /\ Len(cache) = CACHE_SIZE)
          => /\ CacheIndices(cache') =
                   (CacheIndices(cache) \ {Head(PresentByInsertion)}) \cup {last'.arg}
             /\ Len(cache') = Len(cache)]_vars

\* C4's case: 3 * CACHE_SIZE insertions into a cache of the largest capacity,
\* every index having been inserted, the last of them by the put just made.
C4_Witness ==
    /\ last.op = "put"
    /\ last.ok
    /\ CACHE_SIZE = MaxCache
    /\ nInserted = 3 * CACHE_SIZE
    /\ Len(inserted) = MaxFrames

\* C14: inserting an index that is already cached is a no-op: a put of a cached
\* index, with the same frame or another one, leaves the cache size, the frame
\* stored for the index and the order of the entries unchanged.
C14_PutCachedIsNoOp ==
    [][\A idx \in PutIndices : \A frame \in PutFrames(idx) :
         (CachePut(idx, frame) /\ idx \in DOMAIN cache_index_map)
         => /\ Len(cache') = Len(cache)
            /\ cache_index_map'[idx] = cache_index_map[idx]
            /\ cache' = cache
            /\ cache_index_map' = cache_index_map]_vars

\* C14's case: a put of the oldest entry of a full cache with a frame other
\* than the one stored; the entry is still the oldest and holds its first frame.
C14_Witness ==
    /\ last.op = "put" /\ ~last.ok
    /\ Len(cache) = MaxCache
    /\ cache[1][1] = last.arg
    /\ cache[1][2] # last.frame
    /\ cache_index_map[last.arg] = cache[1][2]

\* ------------------------------------------------ the cold seek's claims
\* The last call was seek(t), 0 <= t < N, the first call after a load.
ColdSeek ==
    last.op = "seek" /\ ExactSource /\ last.arg >= 0 /\ last.arg < total_frames

\* The target of a cold seek lies within the small step of the cold position -1.
InSmallStep(t) == 0 < t + 1 /\ t + 1 <= SMALL_STEP_THRESHOLD

\* C9 as stated: with is_fast_seek false and lookback L, a cold seek(t)
\* decodes exactly min(t, L) + 1 frames, for every t in [0, N).
C9_Original ==
    (ColdSeek /\ ~is_fast_seek) =>
        last.nread = Min(last.arg, smart_seek_lookback) + 1

\* C9, amended: with is_fast_seek false and lookback L, a cold seek(t) decodes
\* exactly min(t, L) + 1 frames for every target t >= 10, past the small step;
\* for t <= 9 it advances by sequential reads and decodes the t + 1 frames 0..t.
C9_ColdLookbackDecodes ==
    (ColdSeek /\ ~is_fast_seek) =>
        /\ last.ok /\ last.frame = last.arg /\ last.idx = last.arg
        /\ last.nread = IF InSmallStep(last.arg)
                        THEN last.arg + 1
                        ELSE Min(last.arg, smart_seek_lookback) + 1

\* C9's case: a target past the small step reached by a lookback shorter than
\* the target.
C9_Witness ==
    /\ ColdSeek /\ ~is_fast_seek
    /\ last.arg >= SMALL_STEP_THRESHOLD
    /\ smart_seek_lookback > 0 /\ smart_seek_lookback < last.arg
    /\ last.path = "lookback"
    /\ last.nread = smart_seek_lookback + 1

\* C10 as stated: with is_fast_seek true, a cold seek(t) never performs a
\* lookback decode and decodes exactly one frame, the target, for every t in
\* [0, N).
C10_Original ==
    (ColdSeek /\ is_fast_seek) =>
        /\ last.path # "lookback"
        /\ last.nread = 1
        /\ last.frame = last.arg

\* C10, amended: with is_fast_seek true, a cold seek(t) never performs a
\* lookback decode; it decodes exactly one frame, the target, when t = 0 or
\* t >= 10, and for 1 <= t <= 9 it advances by sequential reads with no
\* positional seek and decodes the t + 1 frames 0..t.
C10_ColdFastSeekDecodes ==
    (ColdSeek /\ is_fast_seek) =>
        /\ last.path \in {"small", "direct"}
        /\ last.ok /\ last.frame = last.arg /\ last.idx = last.arg
        /\ IF InSmallStep(last.arg)
           THEN last.nread = last.arg + 1 /\ last.nset = 0
           ELSE last.nread = 1 /\ last.nset = 1

\* C10's case: a fast-seek stream, the settings asking for a lookback, and a
\* target past the small step served by one positional seek.
C10_Witness ==
    /\ ColdSeek /\ is_fast_seek
    /\ settings.seek_effort > 0
    /\ last.arg >= SMALL_STEP_THRESHOLD
    /\ last.path = "direct"
    /\ last.nread = 1

\* ------------------------------------------------ the claims on seek's branches
\* C11: a seek whose clamped target is in the cache decodes nothing and
\* returns success with the cached frame of that index, which is the frame of
\* that index, and with the reported index equal to the target.
C11_CacheHitNoDecode ==
    [][\A t \in SeekArgs :
         (/\ Seek(t)
          /\ cap.open
          /\ ClampTarget(EngineState, t) \in DOMAIN cache_index_map)
         => LET target == ClampTarget(EngineState, t) IN
            /\ last'.ok
            /\ last'.nread = 0
            /\ last'.idx = target
            /\ last'.frame = cache_index_map[target]
            /\ last'.frame = target]_vars

\* C11's case: a seek served from the cache whose target is neither the frame
\* decoded last nor the position the engine stood at.
C11_Witness ==
    /\ last.op = "seek" /\ last.path = "cache"
    /\ last.ok /\ last.nread = 0
    /\ last.idx = last.arg
    /\ cap.pos # last.idx + 1
    /\ Len(cache) = MaxCache

\* C12: on a stream whose frames all decode, a seek to an uncached target with
\* 0 < target - current_frame_index <= 10 advances by sequential reads only:
\* it decodes exactly target - current_frame_index frames, sets no decoder
\* position, returns the target's frame and index, and the intermediate indices
\* current_frame_index+1 .. target have gone into the cache (those the capacity
\* lets stay are in it).
C12_SmallStepAdvances ==
    [][\A t \in SeekArgs :
         LET target == ClampTarget(EngineState, t)
             diff == target - current_frame_index
         IN (/\ Seek(t)
             /\ ExactSource
             /\ target \notin DOMAIN cache_index_map
             /\ 0 < diff /\ diff <= SMALL_STEP_THRESHOLD)
            => /\ last'.ok
               /\ last'.idx = target
               /\ last'.frame = target
               /\ last'.nread = diff
               /\ last'.nset = 0
               /\ \A i \in (current_frame_index + 1)..target :
                    i > target - cache_maxlen => i \in DOMAIN cache_index_map']_vars

\* C13: seek clamps its argument to [0, total_frames - 1]: on an open stream
\* whose frames all decode, seek(t) with t < 0 does and returns what seek(0)
\* does and returns, seek(t) with t >= total_frames what seek(total_frames - 1)
\* does and returns, and such a clamped seek reports success with the clamped
\* index.
C13_SeekClamps ==
    [][\A t \in SeekArgs :
         (/\ Seek(t)
          /\ ExactSource
          /\ (t < 0 \/ t >= total_frames))
         => LET clamped == IF t < 0 THEN 0 ELSE total_frames - 1 IN
            /\ SeekOp(EngineState, t) = SeekOp(EngineState, clamped)
            /\ last'.ok
            /\ last'.idx = clamped]_vars

\* C15: a seek served from the cache leaves the cache's entries and their order
\* unchanged, and the entry it accessed is still the first to go: when that
\* entry is the oldest of a full cache, the next read that inserts a frame
\* evicts it and keeps every entry inserted after it (FIFO, not LRU).
C15_LookupKeepsOrder ==
    /\ [][\A t \in SeekArgs :
            (/\ Seek(t)
             /\ cap.open
             /\ ClampTarget(EngineState, t) \in DOMAIN cache_index_map)
            => /\ cache' = cache
               /\ cache_index_map' = cache_index_map]_vars
    /\ [][(/\ last.op = "seek" /\ last.path = "cache"
           /\ Len(cache) = cache_maxlen
           /\ Head(cache)[1] = last.idx
           /\ Read
           /\ last'.ok
           /\ last'.idx \notin DOMAIN cache_index_map)
          => /\ last.idx \notin DOMAIN cache_index_map'
             /\ cache' = Append(Tail(cache), <<last'.idx, last'.frame>>)]_vars

\* C15's case: the seek was served by the oldest entry of a full cache that
\* holds a newer entry as well, and the decoder stands before a frame that is
\* not cached, so that the next read inserts.
C15_Witness ==
    /\ last.op = "seek" /\ last.path = "cache"
    /\ MaxCache > 1 /\ Len(cache) = MaxCache /\ cache_maxlen = MaxCache
    /\ Head(cache)[1] = last.idx
    /\ cap.pos < cap.frames
    /\ cap.pos \notin DOMAIN cache_index_map

C17_ReadDecodesNext ==
    [][(Read /\ cap.open) =>
         IF cap.pos < cap.frames
         THEN /\ last'.ok
              /\ last'.nread = 1 /\ last'.nset = 0
              /\ last'.frame = cap.pos
              /\ last'.idx = last'.frame
              /\ current_frame_index' = last'.idx
              /\ cap'.pos = cap.pos + 1
              /\ last'.idx \in DOMAIN cache_index_map'
              /\ cache_index_map'[last'.idx] = last'.frame
              /\ last'.idx \notin DOMAIN cache_index_map
                   => cache'[Len(cache')] = <<last'.idx, last'.frame>>
         ELSE /\ ~last'.ok
              /\ last'.nread = 0
              /\ last'.idx = current_frame_index
              /\ current_frame_index' = current_frame_index
              /\ cache' = cache
              /\ cache_index_map' = cache_index_map
              /\ cap' = cap]_vars

\* C17's case: a read that succeeded on a full cache and put its frame, not
\* the first of the stream, into it as the newest entry.
C17_Witness ==
    /\ last.op = "read" /\ last.ok
    /\ last.idx > 0
    /\ current_frame_index = last.idx
    /\ Len(cache) = MaxCache
    /\ cache[Len(cache)] = <<last.idx, last.frame>>

\* C18: an engine call that reports failure leaves the engine closed, or with
\* the current position, the decoder (its position included) and the cache it
\* had before the call.
C18_FailureKeepsState ==
    [][(last' # last /\ ~last'.ok) =>
         \/ ~cap'.open
         \/ /\ current_frame_index' = current_frame_index
            /\ cap' = cap
            /\ cache' = cache
            /\ cache_index_map' = cache_index_map]_vars

\* C19: full_stop and release can be called in every state; after either the
\* decoder handle is released, and release leaves the cache empty as well;
\* calling either again changes nothing; a closed engine stays closed, and
\* every read and seek on it fails and changes nothing, until a load succeeds,
\* which opens it.
C19_CloseIdempotent ==
    /\ [][(FullStop \/ Release) => cap' = NoCap]_vars
    /\ [][Release => (cache' = <<>> /\ cache_index_map' = EmptyMap)]_vars
    /\ [](/\ FullStopOp(FullStopOp(EngineState)) = FullStopOp(EngineState)
          /\ ReleaseOp(ReleaseOp(EngineState)) = ReleaseOp(EngineState)
          /\ FullStopOp(ReleaseOp(EngineState)) = ReleaseOp(EngineState))
    /\ [][((FullStop \/ Release) /\ last.op \in {"full_stop", "release"}
           /\ (Release => last.op = "release"))
          => engineVars' = engineVars]_vars
    /\ [][(~cap.open /\ (Read \/ \E t \in SeekArgs : Seek(t)))
          => (~last'.ok /\ engineVars' = engineVars)]_vars
    /\ [][(~cap.open /\ cap'.open) => (last'.op = "load" /\ last'.ok)]_vars
    /\ [][(last' # last /\ last'.op = "load" /\ last'.ok) => cap'.open]_vars

\* C19's case: release was called on an engine that had played a stream and
\* was closed already.
C19_Witness ==
    /\ last.op = "release"
    /\ last.arg = 0
    /\ total_frames > 0
    /\ current_frame_index >= 0
    /\ ~cap.open
    /\ cache = <<>>

\* ------------------------------------------------ the proxy workflows' claims
\* C20: in every workflow of the window, at the moment a proxy file is deleted
\* or a ProxyGeneratorThread is started the engine is closed (its decoder
\* handle is released).
C20_ClosedBeforeProxyWork ==
    last.op \in {"delete_proxy", "start_proxy"} => ~cap.open

\* ---------------------------------------------------- the transcoder's claims
\* The one value the finished signal carried.
GenResult == gen.finished[1]

\* run() scales the input down.
GenShrinks == gen.target_height > 0 /\ gen.input.height > gen.target_height

\* C21: if stop() is called while the frame loop runs, then once the thread
\* has finished the output path does not exist and finished_signal was emitted
\* once, with success False; and whenever the thread finishes with failure, no
\* output file is left behind.
C21_CancelLeavesNoOutput ==
    gen.pc = "done" =>
        /\ gen.cancelled =>
             /\ gen.output_path \notin gen.disk
             /\ gen.finished = <<[success |-> FALSE, path |-> NoPath]>>
        /\ ~GenResult.success => gen.disk = {}

C23_ProgressIsPercentage ==
    \A i \in 1..Len(gen.progress) :
        /\ gen.progress[i] \in 0..100
        /\ gen.progress[i] \in Percents(i * PROGRESS_EVERY, gen.input.total)
        /\ i > 1 => gen.progress[i - 1] <= gen.progress[i]

\* C24: the width and height run() passes to the writer are even, each the
\* computed dimension or one more; the computed dimensions are the input's
\* when its height does not exceed the target height, else the target height
\* and the width scaled by target_height / height.
C24_EvenDimensions ==
    gen.pc \in {"writer", "loop", "release"} =>
        LET h == IF GenShrinks THEN gen.target_height ELSE gen.input.height IN
        /\ gen.new_width % 2 = 0
        /\ gen.new_height % 2 = 0
        /\ gen.new_width \in {gen.scaled_width, gen.scaled_width + 1}
        /\ gen.new_height \in {h, h + 1}
        /\ IF GenShrinks
           THEN gen.scaled_width \in
                    ScaledWidths(gen.input.width, gen.input.height, gen.target_height)
           ELSE gen.scaled_width = gen.input.width

\* An input scaled down to an odd width and an odd height, both rounded up.
C24_Witness ==
    /\ gen.pc = "writer"
    /\ GenShrinks
    /\ gen.new_width = gen.scaled_width + 1
    /\ gen.new_height = gen.target_height + 1

\* C39: every run of the transcoder over a finite source terminates and emits
\* finished_signal exactly once, on every path; success is emitted only if
\* stop() was not called before the final test of the flag, and then with the
\* output path.
C39_FinishesExactlyOnce ==
    /\ [](Len(gen.finished) = IF gen.pc = "done" THEN 1 ELSE 0)
    /\ [](gen.pc = "done" /\ GenResult.success
            => gen.is_running /\ GenResult.path = gen.output_path)
    /\ gen.pc = "created" ~> gen.pc = "done"

\* C39's case: stop() was called in the middle of the frame loop and run() has
\* returned, having emitted failure once.
C39_Witness ==
    /\ gen.pc = "done"
    /\ ~gen.is_running
    /\ gen.count > 0
    /\ gen.count < gen.input.frames
    /\ gen.finished = <<[success |-> FALSE, path |-> NoPath]>>

\* C40: is_proxy_active is true only while the engine's decoder is open on the
\* proxy file named by proxy_path; it is false whenever the engine is closed or
\* open on the original.
C40_ProxyActiveOnlyWhenOpen ==
    source.is_proxy_active =>
        /\ cap.open
        /\ source.opened = source.proxy_path
        /\ ~source.on_original

\* ------------------------------------------- the claims on the choice of a proxy
\* The valid proxies of the video called name: the files named
\* {name}_proxy_{quality}p{ext} that are larger than the threshold.
OwnProxies(name) == { f \in proxies_dir : f.name = name /\ f.size > MIN_PROXY_SIZE }

\* The directory without its files at or below the threshold.
LargeFiles == { f \in proxies_dir : f.size > MIN_PROXY_SIZE }

\* The last call was load, with try_proxy true or with any try_proxy.
LoadedTrying == last.op = "load" /\ last.arg = 1

Loaded == last.op = "load"

\* C25: load(path, try_proxy) keeps original_path = path; with try_proxy, if
\* valid proxies of the video exist (and open) the decoder is opened on one of
\* them, is_proxy_active is true and proxy_path names the opened file; if none
\* exists, or none opens, or try_proxy is false, the original is opened (when
\* it opens) and is_proxy_active is false.
C25_LoadChoosesProxy ==
    Loaded =>
        LET own == OwnProxies(source.original_path) IN
        /\ (LoadedTrying /\ own # {} /\ \A f \in own : f.opens) =>
              /\ source.is_proxy_active
              /\ source.opened \in { ProxyPath(f) : f \in own }
              /\ source.proxy_path = source.opened
              /\ cap.open
        /\ (~LoadedTrying \/ \A f \in own : ~f.opens) =>
              /\ ~source.is_proxy_active
              /\ source.opened = NoPath
              /\ source.proxy_path = NoPath
              /\ source.on_original = cap.open

\* C26: a file whose size is at or below the threshold is never opened as a
\* proxy by load and never makes find_existing_proxy report a proxy: the file
\* load opens is larger than the threshold, and both give the result they
\* give on the directory without the small files.
C26_SmallFilesIgnored ==
    /\ Loaded =>
          /\ source.opened # NoPath => \E f \in LargeFiles : ProxyPath(f) = source.opened
          /\ FoundProxies(proxies_dir, source.original_path)
                = FoundProxies(LargeFiles, source.original_path)
    /\ last.op = "find_existing_proxy" =>
          /\ last.ok = FindExistingProxyOp(LargeFiles, source.original_path)
          /\ last.ok => LargeFiles # {}

\* load with try_proxy has opened the original of a video whose expected proxy
\* path holds a file of exactly the threshold size, the only file there is.
C26_Witness ==
    /\ LoadedTrying
    /\ source.on_original
    /\ \E f \in proxies_dir :
         /\ proxies_dir = {f}
         /\ f.size = MIN_PROXY_SIZE
         /\ ProxyPath(f) =
                GenerateProxyPath(source.original_path, proxy_settings.proxy_quality)

\* C27: generate_proxy_path depends on its arguments and the settings only and
\* returns {name}_proxy_{q}p{ext}; when a valid file lies at the path it
\* returns, find_existing_proxy reports a proxy and load selects that file.
C27_GeneratedPathIsFound ==
    /\ [][\A name \in VideoNames, q \in ProxyQualities :
            /\ proxy_settings' = proxy_settings =>
                  GenerateProxyPath(name, q)' = GenerateProxyPath(name, q)
            /\ FileString(GenerateProxyPath(name, q)) =
                  name \o <<"_proxy_", ToString(q), "p",
                            ProxyExtension(proxy_settings.proxy_codec)>>]_vars
    /\ [](last.op = "find_existing_proxy" =>
            ((\E f \in LargeFiles : \E q \in ProxyQualities :
                 ProxyPath(f) = GenerateProxyPath(source.original_path, q)) => last.ok))
    /\ [](LoadedTrying =>
            \A f \in LargeFiles :
               (/\ ProxyPath(f) = GenerateProxyPath(source.original_path,
                                                    proxy_settings.proxy_quality)
                /\ f.opens) => source.opened = ProxyPath(f))

\* ------------------------------------------- the claims on the start of a transcoder
\* C33: a transcoder the application starts is given the codec of the
\* settings (proxy_codec), encodes with that codec's fourcc, and that codec
\* is the one the extension of its output path stands for.
C33_RequestedCodecUsed ==
    /\ [][(gen.pc = "none" /\ gen'.pc = "created") =>
            /\ gen'.codec = proxy_settings.proxy_codec
            /\ gen'.output_path.ext = ProxyExtension(gen'.codec)]_vars
    /\ [][(gen.pc = "writer" /\ gen'.pc = "loop") =>
            gen'.output_path.ext = ProxyExtension(gen'.fourcc)]_vars

\* ------------------------------------------- the segment editor's claims
\* A segment list is non-empty, each segment is non-empty, each starts where
\* the one before ends, and together they cover [0, total).
Covers(segments, total) ==
    /\ segments # <<>>
    /\ \A i \in 1..Len(segments) : segments[i].start < segments[i].end
    /\ \A i \in 1..(Len(segments) - 1) : segments[i].end = segments[i + 1].start
    /\ segments[1].start = 0
    /\ segments[Len(segments)].end = total

\* C32: once a video is loaded, after every split, merge, deletion, undo,
\* redo and reload the segment list is non-empty, sorted, contiguous, without
\* overlap or empty segment, and covers exactly [0, total_frames).
C32_SegmentsCoverVideo == editor.loaded => Covers(editor.segments, editor.total_frames)

C5_NoConcurrentAccess == ~access.concurrent

\* The loop thread calls engine.read.
LoopReadStep == loopPc = "read" /\ loopPc' = "unlock"

\* The loop thread emits a frame.
LoopEmitStep == loopPc = "emit" /\ loopPc' = "test" /\ pending' # pending

\* C6: once stop() has returned (and the thread has not been started again),
\* the loop thread performs no engine.read and emits no frame.
C6_StopMeansExited == [][stopReturned => ~LoopReadStep /\ ~LoopEmitStep]_vars

\* The loop thread goes through the pacing at the end of an iteration.
LoopPaceStep == loopPc = "emit" /\ loopPc' = "test"

\* C28: when the read of the playback loop fails, the loop emits
\* finished_signal and clears its run flag; a run emits finished_signal at most
\* once, and once it has, the run performs no further read and emits no frame:
\* the flag is down and the loop stands on its way out (the unlock, the emit
\* that has no frame, the while test) until it has left.
C28_FinishedOnceThenExit ==
    /\ [][(LoopReadStep /\ ~last'.ok) =>
            (runLog'.finished = runLog.finished + 1 /\ ~run_flag')]_vars
    /\ [](runLog.finished <= 1)
    /\ []((LoopRunning /\ runLog.finished = 1) =>
            /\ ~run_flag
            /\ loopPc \in {"unlock", "emit", "test"}
            /\ loopFr = NoFrame)
    /\ [][(LoopRunning /\ runLog.finished = 1) => (~LoopReadStep /\ ~LoopEmitStep)]_vars

\* A run whose read failed has left the loop.
C28_Witness == runLog.finished = 1 /\ loopPc = "idle" /\ last.op = "read" /\ ~last.ok

\* C29: the playback loop never skips frames. Every iteration performs
\* exactly one engine.read; the indices the reads of one run return, which are
\* the indices of the frames it emits, are consecutive and increasing; every
\* frame read is emitted with its index; the pacing changes the count of
\* frames played only (by one, or back to zero when the loop has fallen
\* behind), never the engine or the frames queued.
C29_NoSkippedFrames ==
    /\ [](runLog.reads <= 1 /\ (loopPc \in {"unlock", "emit"} => runLog.reads = 1))
    /\ [][(LoopReadStep /\ last'.ok /\ runLog.prev # -1) =>
            loopIdx' = runLog.prev + 1]_vars
    /\ [][(LoopPaceStep /\ loopFr # NoFrame) =>
            pending' = Append(pending, [frame |-> loopFr, idx |-> loopIdx])]_vars
    /\ [][LoopPaceStep =>
            /\ UNCHANGED engineVars
            /\ frames_played_in_loop' \in
                  IF run_flag THEN {0, frames_played_in_loop + 1}
                  ELSE {frames_played_in_loop}]_vars

LoopUnlockStep ==
    \/ loopPc = "check" /\ loopPc' = "break"
    \/ loopPc = "unlock" /\ loopPc' = "emit"
    \/ loopPc = "break" /\ loopPc' = "idle" /\ ~killPending

\* C35: a stop request is never lost: from the moment stop() has cleared the
\* run flag until stop() returns, the flag stays down, whatever the
\* interleaving with start() and the first statements of run(); the loop
\* started before the request then leaves by its own test.
C35_StopNeverLost == ui.pc \in {"stop_wait", "stop_term"} => ~run_flag

\* C36: every unlock of the loop thread releases a lock the loop thread
\* holds: it never unlocks the mutex when free or held by the UI context.
C36_LoopUnlocksItsOwnLock == [][LoopUnlockStep => mutex = "loop"]_vars

\* C30: the index update_image records for a frame, read from
\* thread.current_frame_num when the frame is handled, is the index the frame
\* was read with.
C30_RecordedIndexIsFrameIndex == shown.idx # -1 => shown.current_frame = shown.idx

\* C7: no UI operation blocks forever on the mutex: while the UI waits for the
\* mutex, the mutex is free or its holder is a loop thread inside its guarded
\* section, which releases it. (A mutex held by a thread that has left that
\* section is never released: the loop only unlocks from inside it, and the
\* waiting UI can start nothing.)
C7_MutexHolderAlive == (ui.pc = "lock" /\ mutex = "loop") => LoopInside

====
